---- MODULE Spec2Model ----
(***************************************************************************)
(* The provider orchestration core of astrbot_plugin_txsc:                *)
(* ProviderManager (src/providers/manager.py) with the retry policy of    *)
(* BaseImageProvider (src/providers/base.py), and the message parser      *)
(* (src/utils/message_parser.py), whose functions are followed on their   *)
(* own through the variable `pure`.                                        *)
(*                                                                         *)
(* The program runs on one asyncio event loop: a coroutine runs without   *)
(* interruption until it awaits.  `running` names the coroutine that holds *)
(* the loop; every other operation waits until it is None.  A request     *)
(* gives the loop up only while it awaits the adapter's generate_image or *)
(* the retry sleep.                                                        *)
(***************************************************************************)
EXTENDS Integers, Sequences, FiniteSets

(* ------------------------------ bounds -------------------------------- *)
\* manager operations (register, enable, ...) performed next to one call
MaxOps == 3
\* ProviderConfig.max_retries is drawn from 0 .. MaxRetries
MaxRetries == 2
\* manager operations performed between the calls of a sequence of calls
MaxSelectorOps == 4
\* generate_image calls made one after the other
MaxSelectorCalls == 3

\* where the retry policy is followed: max_retries is drawn from 0 .. MaxTries
MaxTries == 3
\* and at most MaxRetryOps adapters are registered
MaxRetryOps == 2
\* manager operations performed next to two calls that run concurrently
MaxConcurrentOps == 2
\* registry operations performed next to one health sweep
MaxHealthOps == 3
\* image counts (requested, and the most an adapter takes) run from 1 to MaxCount
MaxCount == 3
\* registrations and strategy changes performed next to a sweep and calls
MaxSweepOps == 2
\* generate_image calls made next to one health sweep
MaxSweepCalls == 2
\* adapters registered before and between the calls of a fallback chain
MaxChainOps == 2
\* generate_image calls made one after the other with any request
MaxChainCalls == 2
\* register, enable and disable operations performed next to one call
MaxInterleaveOps == 4

\* the provider names in use
Names == {"A", "B"}
None == "None"
\* the slots in which generate_image calls run
Reqs == {"r1", "r2"}
\* no call attempts more adapters than there are names (a cap, never reached)
AttemptCap == Cardinality(Names) + 1
\* the response times an attempt can take, in time units
Durations == {1, 2}

(* -------------------------- program constants ------------------------- *)
\* ProviderConfig.retry_delay, in time units
retry_delay == 1

\* class LoadBalanceStrategy
ROUND_ROBIN == "round_robin"
RANDOM == "random"
PRIORITY == "priority"
FASTEST == "fastest"
CHEAPEST == "cheapest"
LoadBalanceStrategy == {ROUND_ROBIN, RANDOM, PRIORITY, FASTEST, CHEAPEST}

VARIABLES
    providers,               \* dict name -> provider, as the sequence of its items
    enabled_providers,       \* list of names
    load_balance_strategy,
    current_provider_index,
    provider_stats,          \* dict name -> stats
    fallback_enabled,
    max_retries,             \* ProviderConfig.max_retries of the adapters
    running,                 \* the coroutine holding the event loop, or None
    pc,                      \* where each generate_image call stands
    rq,                      \* the locals of each generate_image call
    result,                  \* what each generate_image call returned
    attempted,               \* adapters handed to _generate_with_provider, per call
    calls,                   \* adapter generate_image invocations, per call
    sleeps,                  \* retry sleeps (their lengths), per call
    seen_enabled,            \* names listed in enabled_providers at some time of the call
    sel,                     \* the Selector calls since construction
    ops,                     \* manager operations performed
    started,                 \* generate_image calls started
    hc,                      \* the health_check_all sweep
    pure                     \* a call of a function followed on its own

vars == <<providers, enabled_providers, load_balance_strategy,
          current_provider_index, provider_stats, fallback_enabled,
          max_retries, running, pc, rq, result, attempted, calls, sleeps,
          seen_enabled, sel, ops, started, hc, pure>>

manager_vars == <<providers, enabled_providers, load_balance_strategy,
                  current_provider_index, provider_stats, fallback_enabled,
                  max_retries>>

request_vars == <<pc, rq, result, attempted, calls, sleeps, running>>

(* ------------------------------ helpers ------------------------------- *)
Range(s) == {s[i] : i \in 1..Len(s)}

NoDuplicates(s) == \A i, j \in 1..Len(s) : s[i] = s[j] => i = j

\* list.remove(x): drops the first occurrence
Remove(s, x) ==
    LET i == CHOOSE k \in 1..Len(s) : s[k] = x /\ \A j \in 1..(k-1) : s[j] # x
    IN  IF x \in Range(s)
        THEN [k \in 1..(Len(s)-1) |-> IF k < i THEN s[k] ELSE s[k+1]]
        ELSE s

RECURSIVE GCD(_, _)
GCD(a, b) == IF b = 0 THEN a ELSE GCD(b, a % b)

\* a non-negative rational <<numerator, denominator>> in lowest terms
Reduce(n, d) == LET g == GCD(n, d) IN <<n \div g, d \div g>>
RatLess(x, y) == x[1] * y[2] < y[1] * x[2]

\* names registered: the keys of self.providers
Registered == {providers[i].name : i \in 1..Len(providers)}

\* position of a registered name in self.providers (dict insertion order)
RegIndex(n) == CHOOSE i \in 1..Len(providers) : providers[i].name = n

\* self.providers[name].config.enabled
ConfigEnabled(n) == providers[RegIndex(n)].enabled

\* last_used is None or "end_time", the time.time() taken when the latest
\* attempt ended.
\* durations is no field of the program: it adds up the durations of the
\* attempts counted in total_requests (an attempt that ends in the
\* handler of line 232 has raised before anything was awaited: duration 0)
NewStats == [total_requests |-> 0, successful_requests |-> 0,
             failed_requests |-> 0, avg_response_time |-> <<0, 1>>,
             last_used |-> None, health_status |-> "unknown",
             durations |-> 0]

\* GenerationParams(prompt): no size, one image (base.py lines 53, 56)
DefaultParams == [size |-> None, num_images |-> 1]

\* the arguments and the locals of a generate_image call; params is the
\* caller's GenerationParams object, which every adapter is handed, and
\* original (no field of the program) what it held when the call began
NoRequest == [params |-> DefaultParams, original |-> DefaultParams,
              provider_name |-> None, arg_use_fallback |-> None,
              use_fallback |-> FALSE,
              excluded_providers |-> <<>>, provider |-> None,
              path |-> None, attempt |-> 0, outcome |-> None,
              stale |-> FALSE,
              \* of the generate_with_retry invocation under way: the adapter
              \* calls made, the tries whose preprocessing raised, the sleeps
              \* taken, last_error (the error of the try of that number, 0 for
              \* None) and the message of the result it made up itself
              invoked |-> 0, skipped |-> 0, slept |-> <<>>,
              last_error |-> 0, message |-> None]

NoResult == [kind |-> None, provider |-> None]

\* the Selector calls are no longer followed
NoRun == [calls |-> 0, clean |-> FALSE, last |-> None]

\* no health sweep under way
NoSweep == [pc |-> "idle", names |-> <<>>, probes |-> <<>>, results |-> <<>>]

\* no utility function called
NoCall == [fn |-> None, input |-> None, returned |-> FALSE, output |-> None]

\* ProviderManager() with no call and no sweep under way
InitManager ==
    /\ providers = <<>>
    /\ enabled_providers = <<>>
    /\ load_balance_strategy = PRIORITY
    /\ current_provider_index = 0
    /\ provider_stats = <<>>
    /\ fallback_enabled = TRUE
    /\ running = None
    /\ pc = [r \in Reqs |-> "idle"]
    /\ rq = [r \in Reqs |-> NoRequest]
    /\ result = [r \in Reqs |-> NoResult]
    /\ attempted = [r \in Reqs |-> <<>>]
    /\ calls = [r \in Reqs |-> 0]
    /\ sleeps = [r \in Reqs |-> <<>>]
    /\ seen_enabled = [r \in Reqs |-> {}]
    /\ sel = [calls |-> 0, clean |-> TRUE, last |-> None]
    /\ ops = 0
    /\ started = 0
    /\ hc = NoSweep

Init ==
    /\ InitManager
    /\ max_retries \in 0..MaxRetries
    /\ pure = NoCall


(* ------------------------- manager operations ------------------------- *)
\* a call in flight is suspended in an adapter call or in a retry sleep
InFlight(r) == pc[r] \in {"adapter", "sleeping"}

\* _generate_with_provider holds a reference to the stats dict it read at
\* entry; once provider_stats[name] is replaced or deleted, that reference
\* no longer is the dict the manager reads
MarkStale(S) ==
    [r \in Reqs |-> IF InFlight(r) /\ rq[r].provider \in S
                    THEN [rq[r] EXCEPT !.stale = TRUE]
                    ELSE rq[r]]

\* names that enter enabled_providers are recorded for the calls in flight
SeeEnabled(S) ==
    [r \in Reqs |-> IF InFlight(r) THEN seen_enabled[r] \cup S
                    ELSE seen_enabled[r]]

\* the run of Selector calls ends when the list or the strategy changes
SelKept ==
    sel' = IF sel.calls > 0 /\ (enabled_providers' # enabled_providers
                                \/ load_balance_strategy' # load_balance_strategy)
           THEN NoRun ELSE sel

Operation ==
    /\ running = None
    /\ ops' = ops + 1
    /\ UNCHANGED <<max_retries, running, pc, result, attempted, calls, sleeps,
                   started, hc, pure>>

\* self.providers[provider.name] = provider
PutProvider(n, en) ==
    IF n \in Registered
    THEN [providers EXCEPT ![RegIndex(n)] = [name |-> n, enabled |-> en]]
    ELSE Append(providers, [name |-> n, enabled |-> en])

\* self.provider_stats[name] = {...zeros...}
PutStats(stats, n) ==
    [m \in (DOMAIN stats) \cup {n} |-> IF m = n THEN NewStats ELSE stats[m]]

register_provider(n, en) ==
    /\ Operation
    /\ providers' = PutProvider(n, en)
    /\ enabled_providers' =
         IF en /\ n \notin Range(enabled_providers)
         THEN Append(enabled_providers, n)
         ELSE enabled_providers
    /\ provider_stats' = PutStats(provider_stats, n)
    /\ rq' = MarkStale({n})
    /\ seen_enabled' = SeeEnabled(IF en THEN {n} ELSE {})
    /\ UNCHANGED <<load_balance_strategy, current_provider_index,
                   fallback_enabled>>
    /\ SelKept

unregister_provider(n) ==
    /\ Operation
    /\ providers' = SelectSeq(providers, LAMBDA p : p.name # n)
    /\ enabled_providers' = Remove(enabled_providers, n)
    /\ provider_stats' = [m \in (DOMAIN provider_stats) \ {n} |-> provider_stats[m]]
    /\ rq' = MarkStale({n})
    /\ UNCHANGED <<load_balance_strategy, current_provider_index,
                   fallback_enabled, seen_enabled>>
    /\ SelKept

enable_provider(n) ==
    /\ Operation
    /\ IF n \in Registered
       THEN /\ providers' = [providers EXCEPT ![RegIndex(n)].enabled = TRUE]
            /\ enabled_providers' =
                 IF n \notin Range(enabled_providers)
                 THEN Append(enabled_providers, n)
                 ELSE enabled_providers
            /\ seen_enabled' = SeeEnabled({n})
       ELSE UNCHANGED <<providers, enabled_providers, seen_enabled>>
    /\ UNCHANGED <<load_balance_strategy, current_provider_index,
                   provider_stats, fallback_enabled, rq>>
    /\ SelKept

disable_provider(n) ==
    /\ Operation
    /\ IF n \in Registered
       THEN /\ providers' = [providers EXCEPT ![RegIndex(n)].enabled = FALSE]
            /\ enabled_providers' = Remove(enabled_providers, n)
       ELSE UNCHANGED <<providers, enabled_providers>>
    /\ UNCHANGED <<load_balance_strategy, current_provider_index,
                   provider_stats, fallback_enabled, rq, seen_enabled>>
    /\ SelKept

set_load_balance_strategy(strategy) ==
    /\ Operation
    /\ load_balance_strategy' =
         IF strategy \in LoadBalanceStrategy THEN strategy
         ELSE load_balance_strategy
    /\ UNCHANGED <<providers, enabled_providers, current_provider_index,
                   provider_stats, fallback_enabled, rq, seen_enabled>>
    /\ SelKept

\* reset_stats(provider_name): one name, or every name when it is None
reset_stats(n) ==
    /\ Operation
    /\ provider_stats' =
         IF n # None
         THEN IF n \in DOMAIN provider_stats
              THEN [provider_stats EXCEPT ![n] = NewStats]
              ELSE provider_stats
         ELSE [m \in DOMAIN provider_stats |-> NewStats]
    /\ rq' = MarkStale(IF n # None THEN {n} ELSE DOMAIN provider_stats)
    /\ UNCHANGED <<providers, enabled_providers, load_balance_strategy,
                   current_provider_index, fallback_enabled, seen_enabled>>
    /\ SelKept

\* the public attribute fallback_enabled is configured by assignment
set_fallback_enabled(b) ==
    /\ Operation
    /\ fallback_enabled' = b
    /\ UNCHANGED <<providers, enabled_providers, load_balance_strategy,
                   current_provider_index, provider_stats, rq, seen_enabled>>
    /\ SelKept

(* ------------------------------ Selector ------------------------------ *)
\* faulty variant: the exclusions are not applied
available_ignoring_exclusions(exclude_providers) ==
    SelectSeq(enabled_providers, LAMBDA n : n \in Registered)

\* faulty variant: every registered name is a candidate, enabled or not
registered_providers(exclude_providers) ==
    SelectSeq([i \in 1..Len(providers) |-> providers[i].name],
              LAMBDA n : n \notin exclude_providers)

\* enabled names that are neither excluded nor unregistered, in list order
available_providers(exclude_providers) ==
    SelectSeq(enabled_providers,
              LAMBDA n : n \notin exclude_providers /\ n \in Registered)

\* faulty variant: the cursor is not advanced
SelectRoundRobinStuck(available, index) ==
    LET i == IF index >= Len(available) THEN 0 ELSE index
    IN  {[name |-> available[i + 1], index |-> i]}

\* Each strategy yields the possible pairs (name chosen, cursor afterwards).
SelectRoundRobin(available, index) ==
    LET i == IF index >= Len(available) THEN 0 ELSE index
    IN  {[name |-> available[i + 1], index |-> i + 1]}

SelectRandom(available, index) ==
    {[name |-> n, index |-> index] : n \in Range(available)}

SelectPriority(available, index) ==
    {[name |-> available[1], index |-> index]}

\* min(available, key=avg_response_time): the first of the minimal ones
SelectFastest(available, index) ==
    LET key(i) == provider_stats[available[i]].avg_response_time
        best == CHOOSE i \in 1..Len(available) :
                  /\ \A j \in 1..Len(available) : ~RatLess(key(j), key(i))
                  /\ \A j \in 1..(i - 1) : RatLess(key(i), key(j))
    IN  {[name |-> available[best], index |-> index]}

\* faulty variant: the last candidate instead of the first
SelectCheapestLast(available, index) ==
    {[name |-> available[Len(available)], index |-> index]}

SelectCheapest(available, index) ==
    {[name |-> available[1], index |-> index]}

SelectUnder(strategy, exclude_providers) ==
    LET available == available_providers(exclude_providers)
        index == current_provider_index
    IN  IF available = <<>> THEN {[name |-> None, index |-> index]}
        ELSE CASE strategy = ROUND_ROBIN -> SelectRoundRobin(available, index)
               [] strategy = RANDOM -> SelectRandom(available, index)
               [] strategy = PRIORITY -> SelectPriority(available, index)
               [] strategy = FASTEST -> SelectFastest(available, index)
               [] strategy = CHEAPEST -> SelectCheapest(available, index)
               [] OTHER -> {[name |-> available[1], index |-> index]}

_select_provider(exclude_providers) ==
    SelectUnder(load_balance_strategy, exclude_providers)

\* The run of Selector calls since construction, followed for as long as
\* every call was a round_robin call without exclusions and, once the run
\* has begun, neither the enabled list nor the strategy has changed.
SelAfter(exclude_providers, name) ==
    IF /\ sel.clean
       /\ load_balance_strategy = ROUND_ROBIN
       /\ exclude_providers = {}
       /\ name # None
    THEN [calls |-> sel.calls + 1, clean |-> TRUE, last |-> name]
    ELSE NoRun

(* --------------------------- usage tracker ---------------------------- *)
\* lines 207-228: the attempt returned a result
StatsAfterResult(s, success, response_time) ==
    LET n == s.total_requests + 1
        avg == s.avg_response_time
    IN  [total_requests |-> n,
         successful_requests |-> s.successful_requests + (IF success THEN 1 ELSE 0),
         failed_requests |-> s.failed_requests + (IF success THEN 0 ELSE 1),
         last_used |-> "end_time",
         health_status |-> IF success THEN "healthy" ELSE "unhealthy",
         durations |-> s.durations + response_time,
         avg_response_time |->
             Reduce(avg[1] * (n - 1) + response_time * avg[2], avg[2] * n)]

\* faulty variant: the failure is not counted
StatsAfterExceptionUncounted(s) ==
    [s EXCEPT !.total_requests = @ + 1, !.health_status = "error",
              !.last_used = "end_time"]

\* faulty variant: the handler records the status of a failure result
StatsAfterExceptionUnhealthy(s) ==
    [s EXCEPT !.total_requests = @ + 1,
              !.failed_requests = @ + 1,
              !.health_status = "unhealthy",
              !.last_used = "end_time"]

\* lines 232-238: the attempt raised; the average is left as it was
StatsAfterException(s) ==
    [s EXCEPT !.total_requests = @ + 1,
              !.failed_requests = @ + 1,
              !.health_status = "error",
              !.last_used = "end_time"]

(* ------------------------ request preprocessing ----------------------- *)
\* the image sizes in use, and the capability lists made of them
Sizes == {"512x512", "1024x1024"}
SizeLists == {<<>>} \cup {<<a>> : a \in Sizes}
             \cup {l \in Sizes \X Sizes : l[1] # l[2]}

\* the fields of GenerationParams and ProviderCapabilities that
\* preprocess_params reads
ParamsInputs == [size : Sizes \cup {None}, num_images : 1..MaxCount]
CapabilityInputs == [supported_sizes : SizeLists,
                     max_images_per_request : 1..MaxCount]

preprocess_params_unclamped(params, capabilities) ==
    [params EXCEPT !.size = IF @ = None /\ capabilities.supported_sizes # <<>>
                            THEN capabilities.supported_sizes[1] ELSE @]

\* BaseImageProvider.preprocess_params
preprocess_params(params, capabilities) ==
    LET sized == IF params.size = None /\ capabilities.supported_sizes # <<>>
                 THEN [params EXCEPT !.size = capabilities.supported_sizes[1]]
                 ELSE params
    IN  IF sized.num_images > capabilities.max_images_per_request
        THEN [sized EXCEPT !.num_images = capabilities.max_images_per_request]
        ELSE sized

\* a call of preprocess_params on its own
call_preprocess_params ==
    /\ pure.fn = "preprocess_params"
    /\ ~pure.returned
    /\ pure' = [pure EXCEPT
                  !.returned = TRUE,
                  !.output = preprocess_params(pure.input.params,
                                               pure.input.capabilities)]
    /\ UNCHANGED <<manager_vars, request_vars, seen_enabled, sel, ops,
                   started, hc>>

\* the capabilities of the adapters in use: A takes one image of 512x512,
\* B up to two images of 1024x1024
capabilities ==
    [n \in Names |->
       IF n = "A"
       THEN [supported_sizes |-> <<"512x512">>, max_images_per_request |-> 1]
       ELSE [supported_sizes |-> <<"1024x1024">>,
             max_images_per_request |-> 2]]

(* --------------------------- generate_image --------------------------- *)
UseFallbackChoices == {"True", "False", None}

\* line 136
UseFallback(use_fallback) ==
    IF use_fallback # None THEN use_fallback = "True" ELSE fallback_enabled

\* faulty variant: a name that cannot be used falls through to the loop
ExplicitLookupLenient(provider_name) ==
    IF provider_name # None /\ provider_name \in Registered
       /\ ConfigEnabled(provider_name)
    THEN "attempt"
    ELSE "loop"

\* lines 140-156: what the explicit provider name leads to
ExplicitLookup(provider_name) ==
    IF provider_name = None THEN "loop"
    ELSE IF provider_name \in Registered /\ ConfigEnabled(provider_name)
         THEN "attempt"
    ELSE IF provider_name \notin Registered THEN "not_found"
    ELSE "disabled"

\* faulty variant: the failed adapter is not recorded
ForgetFailure(excluded_providers, name) == excluded_providers

\* lines 146 and 177
ExcludeAfterFailure(excluded_providers, name) ==
    Append(excluded_providers, name)

\* line 181
AllTried(excluded_providers) ==
    Len(excluded_providers) >= Len(enabled_providers)

\* faulty variant: use_fallback is not consulted
AfterAttemptFallback(q, k) ==
    LET res == [kind |-> k, provider |-> q.provider]
        ex == ExcludeAfterFailure(q.excluded_providers, q.provider)
    IN  IF k = "success"
        THEN [to |-> "return", result |-> res,
              excluded_providers |-> q.excluded_providers]
        ELSE IF q.path # "explicit" /\ AllTried(ex)
        THEN [to |-> "return",
              result |-> [kind |-> "all_failed", provider |-> q.provider],
              excluded_providers |-> ex]
        ELSE [to |-> "select", result |-> res, excluded_providers |-> ex]

\* lines 144-146 and 170-185: what generate_image does with the result (of
\* kind k) of the attempt on q.provider.
AfterAttempt(q, k) ==
    LET res == [kind |-> k, provider |-> q.provider]
        ex == ExcludeAfterFailure(q.excluded_providers, q.provider)
    IN  IF k = "success" \/ ~q.use_fallback
        THEN [to |-> "return", result |-> res,
              excluded_providers |-> q.excluded_providers]
        ELSE IF q.path = "explicit"
        THEN [to |-> "select", result |-> res, excluded_providers |-> ex]
        ELSE IF AllTried(ex)
        THEN [to |-> "return",
              result |-> [kind |-> "all_failed", provider |-> q.provider],
              excluded_providers |-> ex]
        ELSE [to |-> "select", result |-> res, excluded_providers |-> ex]

\* the locals of the attempt are dead once _generate_with_provider returned
BetweenAttempts(q) ==
    [q EXCEPT !.provider = None, !.path = None, !.attempt = 0,
              !.outcome = None, !.stale = FALSE,
              !.invoked = 0, !.skipped = 0, !.slept = <<>>,
              !.last_error = 0, !.message = None]

\* the call returns res; only its arguments are kept
Returns(r, res, q) ==
    /\ pc' = [pc EXCEPT ![r] = "done"]
    /\ result' = [result EXCEPT ![r] = res]
    /\ rq' = [rq EXCEPT ![r] =
                [BetweenAttempts(q) EXCEPT !.excluded_providers = <<>>]]
    /\ running' = None

\* _generate_with_provider returned a result of kind k: back in generate_image
Continue(r, q, k) ==
    LET nxt == AfterAttempt(q, k)
        q2 == [BetweenAttempts(q) EXCEPT
                 !.excluded_providers = nxt.excluded_providers]
    IN  IF nxt.to = "return"
        THEN Returns(r, nxt.result, q2)
        ELSE /\ pc' = [pc EXCEPT ![r] = "select"]
             /\ rq' = [rq EXCEPT ![r] = q2]
             /\ running' = r
             /\ UNCHANGED result

\* lines 129-157: the call starts, up to the first adapter attempt or the loop
generate_image(r, params, provider_name, use_fallback) ==
    /\ running = None
    /\ pc[r] = "idle"
    /\ started' = started + 1
    /\ seen_enabled' = [seen_enabled EXCEPT ![r] = Range(enabled_providers)]
    /\ LET q == [NoRequest EXCEPT !.params = params,
                                  !.original = params,
                                  !.provider_name = provider_name,
                                  !.arg_use_fallback = use_fallback,
                                  !.use_fallback = UseFallback(use_fallback)]
           look == ExplicitLookup(provider_name)
       IN  CASE look = "loop" ->
                  /\ pc' = [pc EXCEPT ![r] = "select"]
                  /\ rq' = [rq EXCEPT ![r] = q]
                  /\ running' = r
                  /\ UNCHANGED result
             [] look = "attempt" ->
                  /\ pc' = [pc EXCEPT ![r] = "begin"]
                  /\ rq' = [rq EXCEPT ![r] = [q EXCEPT !.provider = provider_name,
                                                       !.path = "explicit"]]
                  /\ running' = r
                  /\ UNCHANGED result
             [] OTHER ->
                  Returns(r, [kind |-> look, provider |-> None], q)
    /\ UNCHANGED <<manager_vars, attempted, calls, sleeps, sel, ops, hc, pure>>

\* lines 159-166: one turn of the selection loop
Select(r) ==
    /\ running = r
    /\ pc[r] = "select"
    /\ LET ex == Range(rq[r].excluded_providers)
       IN  \E s \in _select_provider(ex) :
             /\ current_provider_index' = s.index
             /\ sel' = SelAfter(ex, s.name)
             /\ IF s.name = None
                THEN Returns(r, [kind |-> "no_provider", provider |-> None], rq[r])
                ELSE /\ pc' = [pc EXCEPT ![r] = "begin"]
                     /\ rq' = [rq EXCEPT ![r].provider = s.name, ![r].path = "loop"]
                     /\ running' = r
                     /\ UNCHANGED result
    /\ UNCHANGED <<providers, enabled_providers, load_balance_strategy,
                   provider_stats, fallback_enabled, max_retries, attempted,
                   calls, sleeps, seen_enabled, ops, started, hc, pure>>

\* faulty variant: the handler lets the exception through
CaughtNothing(e) == FALSE

\* manager.py line 232, "except Exception": the exceptions the handler of
\* _generate_with_provider catches
CaughtByManager(e) == TRUE

\* base.py line 270, "except Exception": the exceptions a try catches
CaughtByRetry(e) == TRUE

\* lines 232-245: the handler of _generate_with_provider counts a failure
\* and makes a failure result of the exception
Raised(r) ==
    /\ provider_stats' =
         IF rq[r].stale THEN provider_stats
         ELSE [provider_stats EXCEPT ![rq[r].provider] = StatsAfterException(@)]
    /\ Continue(r, rq[r], "exception")

\* an exception that nothing catches ends the generate_image coroutine
Escapes(r) ==
    /\ pc' = [pc EXCEPT ![r] = "escaped"]
    /\ running' = None
    /\ UNCHANGED <<rq, result, provider_stats>>

\* exception e is raised inside the try block of _generate_with_provider
Thrown(r, e) == IF CaughtByManager(e) THEN Raised(r) ELSE Escapes(r)

\* lines 187-205 and 232-245: _generate_with_provider reads the stats dict
\* and validates; validate_params raising ends the attempt in the handler
Begin(r, validate) ==
    /\ running = r
    /\ pc[r] = "begin"
    /\ Len(attempted[r]) < AttemptCap
    /\ attempted' = [attempted EXCEPT ![r] = Append(@, rq[r].provider)]
    /\ IF validate = "ok"
       THEN /\ pc' = [pc EXCEPT ![r] = "try"]
            /\ UNCHANGED <<rq, provider_stats, result, running>>
       ELSE Thrown(r, validate)
    /\ UNCHANGED <<providers, enabled_providers, load_balance_strategy,
                   current_provider_index, fallback_enabled, max_retries,
                   calls, sleeps, seen_enabled, sel, ops, started, hc, pure>>

\* base.py lines 268 and 271: the error of the try that just failed
LastError(last_error, attempt) == attempt + 1

\* base.py lines 277-280: the result generate_with_retry makes up itself
RetryExhausted(retries, last_error) ==
    [retries |-> retries, last_error |-> last_error]

\* faulty variant: one failed try ends the invocation
BackoffOnce(r, q) ==
    /\ pc' = [pc EXCEPT ![r] = "finish"]
    /\ rq' = [rq EXCEPT ![r] =
                [q EXCEPT !.attempt = q.attempt + 1,
                          !.last_error = LastError(q.last_error, q.attempt),
                          !.outcome = "failure",
                          !.message = RetryExhausted(max_retries, q.attempt + 1)]]
    /\ running' = r
    /\ UNCHANGED sleeps

\* faulty variant: a sleep follows the last try as well
BackoffSleepsLast(r, q) ==
    LET attempt == q.attempt
        d == retry_delay * (attempt + 1)
    IN  /\ sleeps' = [sleeps EXCEPT ![r] = Append(@, d)]
        /\ pc' = [pc EXCEPT ![r] = "sleeping"]
        /\ rq' = [rq EXCEPT ![r] =
                    [q EXCEPT !.attempt = attempt + 1,
                              !.last_error = LastError(q.last_error, attempt),
                              !.slept = Append(@, d)]]
        /\ running' = None

\* base.py lines 266-280: a try failed (q holds the locals of the call after
\* it); the loop sleeps unless that was the last try, and after the last
\* try generate_with_retry returns the result of lines 277-280
Backoff(r, q) ==
    LET attempt == q.attempt
        last_error == LastError(q.last_error, attempt)
        d == retry_delay * (attempt + 1)
    IN  IF attempt < max_retries - 1
        THEN /\ sleeps' = [sleeps EXCEPT ![r] = Append(@, d)]
             /\ pc' = [pc EXCEPT ![r] = "sleeping"]
             /\ rq' = [rq EXCEPT ![r] =
                         [q EXCEPT !.attempt = attempt + 1,
                                   !.last_error = last_error,
                                   !.slept = Append(@, d)]]
             /\ running' = None
        ELSE /\ pc' = [pc EXCEPT ![r] = "finish"]
             /\ rq' = [rq EXCEPT ![r] =
                         [q EXCEPT !.attempt = attempt + 1,
                                   !.last_error = last_error,
                                   !.outcome = "failure",
                                   !.message =
                                       RetryExhausted(max_retries, last_error)]]
             /\ running' = r
             /\ UNCHANGED sleeps

\* base.py lines 257-263: the head of one try of generate_with_retry
Try(r, preprocess) ==
    /\ running = r
    /\ pc[r] = "try"
    /\ IF rq[r].attempt >= max_retries
       THEN /\ pc' = [pc EXCEPT ![r] = "finish"]
            /\ rq' = [rq EXCEPT ![r].outcome = "failure",
                                ![r].message =
                                    RetryExhausted(max_retries, rq[r].last_error)]
            /\ UNCHANGED <<running, calls, sleeps, provider_stats, result>>
       ELSE IF preprocess = "ok"
       THEN /\ calls' = [calls EXCEPT ![r] = @ + 1]
            /\ pc' = [pc EXCEPT ![r] = "adapter"]
            /\ rq' = [rq EXCEPT
                        ![r].invoked = @ + 1,
                        ![r].params =
                            preprocess_params(@, capabilities[rq[r].provider])]
            /\ running' = None
            /\ UNCHANGED <<sleeps, provider_stats, result>>
       ELSE IF CaughtByRetry(preprocess)
       THEN /\ Backoff(r, [rq[r] EXCEPT !.skipped = @ + 1])
            /\ UNCHANGED <<calls, provider_stats, result>>
       ELSE Thrown(r, preprocess) /\ UNCHANGED <<calls, sleeps>>
    /\ UNCHANGED <<providers, enabled_providers, load_balance_strategy,
                   current_provider_index, fallback_enabled, max_retries,
                   attempted, seen_enabled, sel, ops, started, hc, pure>>

\* base.py lines 263-271: the adapter's generate_image returns or raises
AdapterReturn(r, outcome) ==
    /\ running = None
    /\ pc[r] = "adapter"
    /\ IF outcome = "success"
       THEN /\ pc' = [pc EXCEPT ![r] = "finish"]
            /\ rq' = [rq EXCEPT ![r].outcome = "success"]
            /\ running' = r
            /\ UNCHANGED <<sleeps, provider_stats, result>>
       ELSE IF outcome = "failure" \/ CaughtByRetry(outcome)
       THEN Backoff(r, rq[r]) /\ UNCHANGED <<provider_stats, result>>
       ELSE Thrown(r, outcome) /\ UNCHANGED sleeps
    /\ UNCHANGED <<providers, enabled_providers, load_balance_strategy,
                   current_provider_index, fallback_enabled, max_retries,
                   attempted, calls, seen_enabled, sel, ops, started, hc, pure>>

\* base.py line 275: the retry sleep is over
Wake(r) ==
    /\ running = None
    /\ pc[r] = "sleeping"
    /\ pc' = [pc EXCEPT ![r] = "try"]
    /\ running' = r
    /\ UNCHANGED <<manager_vars, rq, result, attempted, calls, sleeps,
                   seen_enabled, sel, ops, started, hc, pure>>

\* lines 207-230: generate_with_retry returned; the stats dict read at entry
\* is updated, then generate_image goes on
Finish(r, response_time) ==
    /\ running = r
    /\ pc[r] = "finish"
    /\ provider_stats' =
         IF rq[r].stale THEN provider_stats
         ELSE [provider_stats EXCEPT ![rq[r].provider] =
                 StatsAfterResult(@, rq[r].outcome = "success", response_time)]
    /\ Continue(r, rq[r], rq[r].outcome)
    /\ UNCHANGED <<providers, enabled_providers, load_balance_strategy,
                   current_provider_index, fallback_enabled, max_retries,
                   attempted, calls, sleeps, seen_enabled, sel, ops, started, hc, pure>>

\* the caller takes the result; the slot is free for the next call
Return(r) ==
    /\ running = None
    /\ pc[r] = "done"
    /\ pc' = [pc EXCEPT ![r] = "idle"]
    /\ rq' = [rq EXCEPT ![r] = NoRequest]
    /\ result' = [result EXCEPT ![r] = NoResult]
    /\ attempted' = [attempted EXCEPT ![r] = <<>>]
    /\ calls' = [calls EXCEPT ![r] = 0]
    /\ sleeps' = [sleeps EXCEPT ![r] = <<>>]
    /\ seen_enabled' = [seen_enabled EXCEPT ![r] = {}]
    /\ UNCHANGED <<manager_vars, running, sel, ops, started, hc, pure>>

(* -------------------------- health_check_all -------------------------- *)
\* what a probe (provider.health_check()) comes to: a result with one of the
\* three statuses, an exception, or nothing at all (it never completes)
ProbeStatuses == {"healthy", "unhealthy", "error"}
ProbeOutcomes == ProbeStatuses \cup {"raised", "hung"}

\* lines 276-286: one probe per item of self.providers, in dict order; with
\* no provider the empty dict is returned at once
health_check_all ==
    /\ running = None
    /\ hc.pc = "idle"
    /\ hc' = IF providers = <<>>
             THEN [pc |-> "done", names |-> <<>>, probes |-> <<>>,
                   results |-> <<>>]
             ELSE [pc |-> "gather",
                   names |-> [i \in 1..Len(providers) |-> providers[i].name],
                   probes |-> [i \in 1..Len(providers) |-> "pending"],
                   results |-> <<>>]
    /\ UNCHANGED <<manager_vars, request_vars, seen_enabled, sel, ops,
                   started, pure>>

\* the i-th probe comes to its outcome while the sweep awaits the gather
Probe(i, outcome) ==
    /\ running = None
    /\ hc.pc = "gather"
    /\ i \in 1..Len(hc.probes)
    /\ hc.probes[i] = "pending"
    /\ hc' = [hc EXCEPT !.probes[i] = outcome]
    /\ UNCHANGED <<manager_vars, request_vars, seen_enabled, sel, ops,
                   started, pure>>

\* asyncio.gather(*tasks, return_exceptions=True) returns once every task
\* has returned or raised
GatherDone ==
    \A i \in 1..Len(hc.probes) : hc.probes[i] \in ProbeStatuses \cup {"raised"}

\* the entry made for a probe result (lines 291-299)
ProbeEntry(res) == IF res = "raised" THEN "error" ELSE res

\* faulty variant: the sweep counts as a use of the adapter
StatsAfterProbeUsed(s, status) ==
    [s EXCEPT !.health_status = status, !.last_used = "end_time"]

\* line 299: the status of the probe result is stored
StatsAfterProbe(s, status) == [s EXCEPT !.health_status = status]

\* lines 288-301: the loop over the items self.providers has now, reading
\* health_results by position; health_results[i] raises IndexError when the
\* dict has more items than there were probes
Gathered ==
    /\ running = None
    /\ hc.pc = "gather"
    /\ GatherDone
    /\ LET n == IF Len(providers) < Len(hc.probes) THEN Len(providers)
                ELSE Len(hc.probes)
           done == {providers[i].name : i \in 1..n}
       IN  /\ hc' = [hc EXCEPT
                       !.pc = IF Len(providers) > Len(hc.probes)
                              THEN "raised" ELSE "done",
                       !.results = [m \in done |->
                                      ProbeEntry(hc.probes[RegIndex(m)])]]
           /\ provider_stats' =
                [m \in DOMAIN provider_stats |->
                   IF m \in done /\ hc.probes[RegIndex(m)] # "raised"
                   THEN StatsAfterProbe(provider_stats[m],
                                        hc.probes[RegIndex(m)])
                   ELSE provider_stats[m]]
    /\ UNCHANGED <<providers, enabled_providers, load_balance_strategy,
                   current_provider_index, fallback_enabled, max_retries,
                   request_vars, seen_enabled, sel, ops, started, pure>>

(* ----------------------- ParsedMessage to request --------------------- *)
\* @dataclass GenerationParams: its fields, and the defaults of the
\* generated __init__ (prompt has none).  An Optional[int] is written as
\* the empty sequence (None) or the sequence of its value.
GenerationParamsFields ==
    {"prompt", "negative_prompt", "size", "style", "quality", "num_images",
     "seed", "guidance_scale", "steps", "response_format"}

GenerationParamsDefaults ==
    [negative_prompt |-> None, size |-> None, style |-> None,
     quality |-> None, num_images |-> 1, seed |-> <<>>,
     guidance_scale |-> <<>>, steps |-> <<>>, response_format |-> "url"]

\* GenerationParams(**kwargs): the generated __init__ raises TypeError for
\* a keyword that is no field and for a missing prompt
GenerationParams(kwargs) ==
    IF DOMAIN kwargs \subseteq GenerationParamsFields
       /\ "prompt" \in DOMAIN kwargs
    THEN [raised |-> FALSE,
          value |-> [f \in GenerationParamsFields |->
                       IF f \in DOMAIN kwargs THEN kwargs[f]
                       ELSE GenerationParamsDefaults[f]]]
    ELSE [raised |-> TRUE, value |-> "TypeError"]

\* the extraction results in use (@dataclass ParsedMessage)
ParsedMessages ==
    [prompt : {"", "a cat"}, negative_prompt : {"", "blur"},
     size : Sizes \cup {None}, style : {None, "anime"},
     count : 1..MaxCount, seed : {<<>>, <<42>>},
     quality : {None, "hd"}]

\* the property ParsedMessage.generation_params
generation_params(self) ==
    GenerationParams(
        [prompt |-> self.prompt,
         negative_prompt |-> IF self.negative_prompt # ""
                             THEN self.negative_prompt ELSE None,
         size |-> self.size,
         style |-> self.style,
         count |-> self.count,
         seed |-> self.seed,
         quality |-> self.quality,
         response_type |-> "url"])

\* a read of ParsedMessage.generation_params on its own
call_generation_params ==
    /\ pure.fn = "generation_params"
    /\ ~pure.returned
    /\ pure' = [pure EXCEPT !.returned = TRUE,
                            !.output = generation_params(pure.input)]
    /\ UNCHANGED <<manager_vars, request_vars, seen_enabled, sel, ops,
                   started, hc>>

(* --------------------------- text and patterns ------------------------ *)
\* A str is the sequence of its characters; a character is a string of one
\* ASCII character or the name of its code point ("U706B").

\* value = v; F(value): the local variable of the Python code, computed once
With(v, F(_)) == CHOOSE r \in {F(value) : value \in {v}} : TRUE

\* str.lower() and re.IGNORECASE fold the letters
UpperToLower ==
    [c \in {"A", "B", "C", "D", "E", "F", "G", "H", "I", "J", "K", "L", "M",
            "N", "O", "P", "Q", "R", "S", "T", "U", "V", "W", "X", "Y", "Z"}
     |-> CASE c = "A" -> "a" [] c = "B" -> "b" [] c = "C" -> "c"
           [] c = "D" -> "d" [] c = "E" -> "e" [] c = "F" -> "f"
           [] c = "G" -> "g" [] c = "H" -> "h" [] c = "I" -> "i"
           [] c = "J" -> "j" [] c = "K" -> "k" [] c = "L" -> "l"
           [] c = "M" -> "m" [] c = "N" -> "n" [] c = "O" -> "o"
           [] c = "P" -> "p" [] c = "Q" -> "q" [] c = "R" -> "r"
           [] c = "S" -> "s" [] c = "T" -> "t" [] c = "U" -> "u"
           [] c = "V" -> "v" [] c = "W" -> "w" [] c = "X" -> "x"
           [] c = "Y" -> "y" [] c = "Z" -> "z"]

LowerChar(c) == IF c \in DOMAIN UpperToLower THEN UpperToLower[c] ELSE c

\* str.lower()
lower(s) == [i \in 1..Len(s) |-> LowerChar(s[i])]

\* the characters \s matches, and the decimal digits (the ASCII ones: the
\* messages in use hold no other)
Whitespace == {" ", "\t", "\n", "\r", "U3000"}
DigitValue ==
    [c \in {"0", "1", "2", "3", "4", "5", "6", "7", "8", "9"}
     |-> CASE c = "0" -> 0 [] c = "1" -> 1 [] c = "2" -> 2 [] c = "3" -> 3
           [] c = "4" -> 4 [] c = "5" -> 5 [] c = "6" -> 6 [] c = "7" -> 7
           [] c = "8" -> 8 [] c = "9" -> 9]

\* int(s) of a string of digits
RECURSIVE int(_)
int(s) ==
    IF s = <<>> THEN 0
    ELSE 10 * int(SubSeq(s, 1, Len(s) - 1)) + DigitValue[s[Len(s)]]

\* the character classes of the patterns of message_parser.py: \d, \s,
\* [x U00D7], [: UFF1A], [^\s@], [^\s UFF0C , U3002], [^ UFF0C , U3002 UFF1B ;],
\* [UFF0C , U3002 UFF1B ;] and the s of pics? and images? (the patterns
\* with letters are all used with IGNORECASE)
InClass(c, class) ==
    CASE class = "digit" -> c \in DOMAIN DigitValue
      [] class = "space" -> c \in Whitespace
      [] class = "x_or_times" -> LowerChar(c) \in {"x", "U00D7"}
      [] class = "colon" -> c \in {":", "UFF1A"}
      [] class = "not_space_at" -> c \notin Whitespace \cup {"@"}
      [] class = "not_space_comma_stop" -> c \notin Whitespace \cup {"UFF0C",
          ",", "U3002"}
      [] class = "not_separator" -> c \notin {"UFF0C", ",", "U3002", "UFF1B",
          ";"}
      [] class = "separator" -> c \in {"UFF0C", ",", "U3002", "UFF1B", ";"}
      [] class = "s" -> LowerChar(c) = "s"

\* A pattern is a sequence of items.  An item is an alternation of literal
\* texts, tried in the order written, or a character class repeated
\* between min and max times (max < 0: no limit), greedy or lazy.  The
\* groups of the patterns are single items.
Literal(alts) ==
    [type |-> "literal", alts |-> alts, class |-> "", min |-> 1, max |-> 1,
     greedy |-> TRUE]
Repeat(class, min, max, greedy) ==
    [type |-> "class", alts |-> <<>>, class |-> class, min |-> min,
     max |-> max, greedy |-> greedy]
One(class) == Repeat(class, 1, 1, TRUE)
Optional(class) == Repeat(class, 0, 1, TRUE)
Star(class) == Repeat(class, 0, -1, TRUE)
Plus(class) == Repeat(class, 1, -1, TRUE)
LazyPlus(class) == Repeat(class, 1, -1, FALSE)

SetMin(S) == CHOOSE x \in S : \A y \in S : x <= y
SetMax(S) == CHOOSE x \in S : \A y \in S : x >= y

\* text a stands in string at pos (with IGNORECASE: up to the case of letters)
LiteralAt(a, string, pos, ignorecase) ==
    /\ pos + Len(a) - 1 <= Len(string)
    /\ \A j \in 1..Len(a) :
         IF ignorecase THEN LowerChar(string[pos + j - 1]) = LowerChar(a[j])
         ELSE string[pos + j - 1] = a[j]

\* how many characters of the class follow one another from pos, up to max
RECURSIVE Run(_, _, _, _)
Run(class, max, string, pos) ==
    IF pos > Len(string) \/ max = 0 \/ ~InClass(string[pos], class) THEN 0
    ELSE 1 + Run(class, max - 1, string, pos + 1)

NoMatch == [ok |-> FALSE, ends |-> <<>>]

\* The backtracking match of items i.. of the pattern at pos: the first
\* way, in the order the re module tries them, in which the items match.
\* ends[k] is the position after the k-th of these items.
RECURSIVE Match(_, _, _, _, _)
Match(pattern, ignorecase, i, string, pos) ==
    IF i > Len(pattern) THEN [ok |-> TRUE, ends |-> <<>>]
    ELSE
    LET item == pattern[i]
        rest(p) == Match(pattern, ignorecase, i + 1, string, p)
        \* the match that goes on at e after this item
        matched(e) == [ok |-> TRUE, ends |-> <<e>> \o rest(e).ends]
    IN  IF item.type = "literal"
        THEN With({k \in 1..Len(item.alts) :
                     /\ LiteralAt(item.alts[k], string, pos, ignorecase)
                     /\ rest(pos + Len(item.alts[k])).ok},
                  LAMBDA good :
                    IF good = {} THEN NoMatch
                    ELSE With(pos + Len(item.alts[SetMin(good)]),
                              LAMBDA e : matched(e)))
        ELSE With({c \in item.min..Run(item.class, item.max, string, pos) :
                     rest(pos + c).ok},
                  LAMBDA good :
                    IF good = {} THEN NoMatch
                    ELSE With(pos + (IF item.greedy THEN SetMax(good)
                                     ELSE SetMin(good)),
                              LAMBDA e : matched(e)))

\* a match object: where the match starts and where each item ends
MatchAt(pattern, ignorecase, string, pos) ==
    LET m == Match(pattern, ignorecase, 1, string, pos)
    IN  [ok |-> m.ok, start |-> pos, ends |-> m.ends]

\* re.search from pos on: the leftmost match
search_from(pattern, ignorecase, string, pos) ==
    With({p \in pos..(Len(string) + 1) :
            Match(pattern, ignorecase, 1, string, p).ok},
         LAMBDA starts :
           IF starts = {} THEN [ok |-> FALSE, start |-> 0, ends |-> <<>>]
           ELSE With(SetMin(starts),
                     LAMBDA p : MatchAt(pattern, ignorecase, string, p)))

\* re.search(pattern, string, flags)
search(pattern, ignorecase, string) ==
    With(string, LAMBDA s : search_from(pattern, ignorecase, s, 1))

\* match.end() and match.group(k) where the k-th item is the group wanted
MatchEnd(m) == IF m.ends = <<>> THEN m.start ELSE m.ends[Len(m.ends)]
group(m, string, k) ==
    SubSeq(string, IF k = 1 THEN m.start ELSE m.ends[k - 1], m.ends[k] - 1)

\* re.sub(pattern, repl, string, flags): every match, left to right and not
\* overlapping, is replaced (no pattern here matches the empty string)
RECURSIVE sub_from(_, _, _, _, _)
sub_from(pattern, ignorecase, repl, string, pos) ==
    With(search_from(pattern, ignorecase, string, pos),
         LAMBDA m :
           IF ~m.ok THEN SubSeq(string, pos, Len(string))
           ELSE SubSeq(string, pos, m.start - 1) \o repl
                \o sub_from(pattern, ignorecase, repl, string, MatchEnd(m)))

sub(pattern, ignorecase, repl, string) ==
    With(string, LAMBDA s : sub_from(pattern, ignorecase, repl, s, 1))

\* re.findall(pattern, string, flags) for a pattern whose one group is its
\* k-th item: the texts of the group, match after match
RECURSIVE findall_from(_, _, _, _, _)
findall_from(pattern, ignorecase, k, string, pos) ==
    With(search_from(pattern, ignorecase, string, pos),
         LAMBDA m :
           IF ~m.ok THEN <<>>
           ELSE <<group(m, string, k)>>
                \o findall_from(pattern, ignorecase, k, string, MatchEnd(m)))

findall(pattern, ignorecase, k, string) ==
    With(string, LAMBDA s : findall_from(pattern, ignorecase, k, s, 1))

\* str.replace(old, ""), old not empty
replace(string, old) == sub(<<Literal(<<old>>)>>, FALSE, <<>>, string)

\* old in string
contains(string, old) == search(<<Literal(<<old>>)>>, FALSE, string).ok

\* str.strip(): from the first to the last character that is no whitespace
strip(string) ==
    With(string,
         LAMBDA s :
           With({i \in 1..Len(s) : s[i] \notin Whitespace},
                LAMBDA kept : IF kept = {} THEN <<>>
                              ELSE SubSeq(s, SetMin(kept), SetMax(kept))))

(* --------------------------- message parser --------------------------- *)
\* ImageSize(width, height)
ImageSize(width, height) == [width |-> width, height |-> height]

\* self.provider_aliases: the items <<alias, provider>> in dict order
provider_aliases ==
    <<<<<<"U963F", "U91CC">>, <<"t", "o", "n", "g", "y", "i">>>>,
      <<<<"U901A", "U4E49">>, <<"t", "o", "n", "g", "y", "i">>>>,
      <<<<"U4E07", "U76F8">>, <<"t", "o", "n", "g", "y", "i">>>>,
      <<<<"t", "o", "n", "g", "y", "i">>, <<"t", "o", "n", "g", "y", "i">>>>,
      <<<<"U706B", "U5C71">>, <<"v", "o", "l", "c", "e", "n", "g", "i", "n",
          "e">>>>,
      <<<<"v", "o", "l", "c", "e", "n", "g", "i", "n", "e">>, <<"v", "o", "l",
          "c", "e", "n", "g", "i", "n", "e">>>>,
      <<<<"U767E", "U5EA6">>, <<"q", "i", "a", "n", "f", "a", "n">>>>,
      <<<<"U5343", "U5E06">>, <<"q", "i", "a", "n", "f", "a", "n">>>>,
      <<<<"q", "i", "a", "n", "f", "a", "n">>, <<"q", "i", "a", "n", "f", "a",
          "n">>>>,
      <<<<"U8BAF", "U98DE">>, <<"x", "u", "n", "f", "e", "i">>>>,
      <<<<"U661F", "U706B">>, <<"x", "u", "n", "f", "e", "i">>>>,
      <<<<"x", "u", "n", "f", "e", "i">>, <<"x", "u", "n", "f", "e", "i">>>>,
      <<<<"p", "p", "i", "o">>, <<"p", "p", "i", "o">>>>,
      <<<<"U667A", "U8C31">>, <<"z", "h", "i", "p", "u">>>>,
      <<<<"z", "h", "i", "p", "u">>, <<"z", "h", "i", "p", "u">>>>,
      <<<<"c", "h", "a", "t", "g", "l", "m">>, <<"z", "h", "i", "p", "u">>>>,
      <<<<"o", "p", "e", "n", "a", "i">>, <<"o", "p", "e", "n", "a", "i">>>>,
      <<<<"d", "a", "l", "l", "-", "e">>, <<"o", "p", "e", "n", "a", "i">>>>,
      <<<<"d", "a", "l", "l", "e">>, <<"o", "p", "e", "n", "a", "i">>>>,
      <<<<"g", "e", "m", "i", "n", "i">>, <<"g", "e", "m", "i", "n", "i">>>>,
      <<<<"g", "o", "o", "g", "l", "e">>, <<"g", "e", "m", "i", "n", "i">>>>,
      <<<<"g", "r", "o", "k">>, <<"g", "r", "o", "k">>>>,
      <<<<"x", ".", "a", "i">>, <<"g", "r", "o", "k">>>>>>

\* self.size_patterns in dict order: the pattern and the size its lambda
\* makes (from group 1 and group 2 where groups is TRUE)
size_patterns ==
    <<[pattern |-> <<Plus("digit"), One("x_or_times"), Plus("digit")>>,
       groups |-> TRUE, size |-> ImageSize(0, 0)],
      [pattern |-> <<Literal(<<<<"U65B9", "U5F62">>, <<"U6B63", "U65B9",
          "U5F62">>, <<"s", "q", "u", "a", "r", "e">>>>)>>,
       groups |-> FALSE, size |-> ImageSize(1024, 1024)],
      [pattern |-> <<Literal(<<<<"U6A2A", "U7248">>, <<"U6A2A", "U56FE">>,
          <<"l", "a", "n", "d", "s", "c", "a", "p", "e">>>>)>>,
       groups |-> FALSE, size |-> ImageSize(1792, 1024)],
      [pattern |-> <<Literal(<<<<"U7AD6", "U7248">>, <<"U7AD6", "U56FE">>,
          <<"p", "o", "r", "t", "r", "a", "i", "t">>>>)>>,
       groups |-> FALSE, size |-> ImageSize(1024, 1792)],
      [pattern |-> <<Literal(<<<<"U8D85", "U5BBD">>, <<"u", "l", "t", "r", "a",
          "w", "i", "d", "e">>>>)>>,
       groups |-> FALSE, size |-> ImageSize(1792, 1024)],
      [pattern |-> <<Literal(<<<<"U9AD8", "U6E05">>, <<"h", "d">>>>)>>,
       groups |-> FALSE, size |-> ImageSize(1024, 1024)],
      [pattern |-> <<Literal(<<<<"4", "k">>>>)>>,
       groups |-> FALSE, size |-> ImageSize(2048, 2048)],
      [pattern |-> <<Literal(<<<<"U5C0F", "U56FE">>, <<"s", "m", "a", "l",
          "l">>>>)>>,
       groups |-> FALSE, size |-> ImageSize(512, 512)],
      [pattern |-> <<Literal(<<<<"U4E2D", "U56FE">>, <<"m", "e", "d", "i", "u",
          "m">>>>)>>,
       groups |-> FALSE, size |-> ImageSize(768, 768)],
      [pattern |-> <<Literal(<<<<"U5927", "U56FE">>, <<"l", "a", "r", "g",
          "e">>>>)>>,
       groups |-> FALSE, size |-> ImageSize(1024, 1024)],
      [pattern |-> <<Literal(<<<<"U8D85", "U5927">>, <<"x", "l", "a", "r", "g",
          "e">>>>)>>,
       groups |-> FALSE, size |-> ImageSize(1536, 1536)]>>

\* self.style_keywords: the items <<keyword, style>> in dict order
style_keywords ==
    <<<<<<"U5199", "U5B9E">>, <<"r", "e", "a", "l", "i", "s", "t", "i", "c">>>>,
      <<<<"U5361", "U901A">>, <<"c", "a", "r", "t", "o", "o", "n">>>>,
      <<<<"U52A8", "U6F2B">>, <<"a", "n", "i", "m", "e">>>>,
      <<<<"U6CB9", "U753B">>, <<"o", "i", "l", "_", "p", "a", "i", "n", "t",
          "i", "n", "g">>>>,
      <<<<"U6C34", "U5F69">>, <<"w", "a", "t", "e", "r", "c", "o", "l", "o",
          "r">>>>,
      <<<<"U7D20", "U63CF">>, <<"s", "k", "e", "t", "c", "h">>>>,
      <<<<"U9ED1", "U767D">>, <<"b", "l", "a", "c", "k", "_", "w", "h", "i",
          "t", "e">>>>,
      <<<<"U8D5B", "U535A", "U670B", "U514B">>, <<"c", "y", "b", "e", "r", "p",
          "u", "n", "k">>>>,
      <<<<"U84B8", "U6C7D", "U670B", "U514B">>, <<"s", "t", "e", "a", "m", "p",
          "u", "n", "k">>>>,
      <<<<"U7B80", "U7EA6">>, <<"m", "i", "n", "i", "m", "a", "l", "i", "s",
          "t">>>>,
      <<<<"U62BD", "U8C61">>, <<"a", "b", "s", "t", "r", "a", "c", "t">>>>,
      <<<<"U79D1", "U5E7B">>, <<"s", "c", "i", "_", "f", "i">>>>,
      <<<<"U5947", "U5E7B">>, <<"f", "a", "n", "t", "a", "s", "y">>>>,
      <<<<"U6050", "U6016">>, <<"h", "o", "r", "r", "o", "r">>>>,
      <<<<"U53EF", "U7231">>, <<"c", "u", "t", "e">>>>,
      <<<<"U6E05", "U65B0">>, <<"f", "r", "e", "s", "h">>>>,
      <<<<"U6697", "U9ED1">>, <<"d", "a", "r", "k">>>>,
      <<<<"U660E", "U4EAE">>, <<"b", "r", "i", "g", "h", "t">>>>,
      <<<<"U68A6", "U5E7B">>, <<"d", "r", "e", "a", "m", "y">>>>,
      <<<<"U590D", "U53E4">>, <<"v", "i", "n", "t", "a", "g", "e">>>>,
      <<<<"U73B0", "U4EE3">>, <<"m", "o", "d", "e", "r", "n">>>>,
      <<<<"U53E4", "U5178">>, <<"c", "l", "a", "s", "s", "i", "c", "a",
          "l">>>>>>

\* self.quality_keywords: the items <<keyword, quality>> in dict order
quality_keywords ==
    <<<<<<"U9AD8", "U8D28", "U91CF">>, <<"h", "i", "g", "h">>>>,
      <<<<"U6700", "U9AD8", "U8D28", "U91CF">>, <<"h", "i", "g", "h", "e", "s",
          "t">>>>,
      <<<<"U6807", "U51C6", "U8D28", "U91CF">>, <<"s", "t", "a", "n", "d", "a",
          "r", "d">>>>,
      <<<<"U5FEB", "U901F">>, <<"f", "a", "s", "t">>>>,
      <<<<"U7CBE", "U7EC6">>, <<"d", "e", "t", "a", "i", "l", "e", "d">>>>,
      <<<<"U7C97", "U7CD9">>, <<"r", "o", "u", "g", "h">>>>>>

\* trigger_words of _extract_prompts
trigger_words ==
    <<<<"U753B">>,
      <<"U7ED8", "U753B">>,
      <<"U753B", "U4E2A">>,
      <<"U753B", "U5F20">>,
      <<"U753B", "U4E00", "U4E2A">>,
      <<"U753B", "U4E00", "U5F20">>,
      <<"U751F", "U56FE">>,
      <<"U753B", "U753B">>,
      <<"U751F", "U6210">>,
      <<"U5236", "U4F5C">>,
      <<"U521B", "U5EFA">>>>

\* dict.get(key) on the items of a dict: the value in a sequence of its
\* own, or the empty sequence for None
get(items, key) ==
    LET hits == {i \in 1..Len(items) : items[i][1] = key}
    IN  IF hits = {} THEN <<>> ELSE <<items[SetMin(hits)][2]>>

\* the first text of matches that is a known alias (lines 212-216, 222-226)
FirstAlias(matches) ==
    LET hits == {i \in 1..Len(matches) :
                   get(provider_aliases, lower(matches[i])) # <<>>}
    IN  IF hits = {} THEN <<>>
        ELSE get(provider_aliases, lower(matches[SetMin(hits)]))

\* at_pattern @([^\s@]+) and use_pattern
\* (?:U4F7F U7528|U7528)([^\s UFF0C , U3002]+?)(?:U751F U6210|U753B|U7ED8 U5236)
at_pattern == <<Literal(<<<<"@">>>>), Plus("not_space_at")>>
use_pattern ==
    <<Literal(<<<<"U4F7F", "U7528">>, <<"U7528">>>>),
      LazyPlus("not_space_comma_stop"),
      Literal(<<<<"U751F", "U6210">>, <<"U753B">>, <<"U7ED8", "U5236">>>>)>>

\* MessageParser._extract_provider: an Optional[str]
_extract_provider(message) ==
    LET at_matches == findall(at_pattern, TRUE, 2, message)
        use_matches == findall(use_pattern, TRUE, 2, message)
        direct == {i \in 1..Len(provider_aliases) :
                     contains(lower(message), provider_aliases[i][1])}
    IN  IF FirstAlias(at_matches) # <<>> THEN FirstAlias(at_matches)
        ELSE IF FirstAlias(use_matches) # <<>> THEN FirstAlias(use_matches)
        ELSE IF direct # {} THEN <<provider_aliases[SetMin(direct)][2]>>
        ELSE <<>>

\* MessageParser._extract_size: an Optional[ImageSize]
_extract_size(message) ==
    LET hits == {i \in 1..Len(size_patterns) :
                   search(size_patterns[i].pattern, TRUE, message).ok}
        first == size_patterns[SetMin(hits)]
        match == search(first.pattern, TRUE, message)
    IN  IF hits = {} THEN <<>>
        ELSE IF first.groups
             THEN <<ImageSize(int(group(match, message, 1)),
                              int(group(match, message, 3)))>>
             ELSE <<first.size>>

\* style_patterns of _extract_style, each with the item that is its group
style_patterns ==
    <<[pattern |-> <<Literal(<<<<"U98CE", "U683C">>, <<"U6837", "U5F0F">>>>),
        Optional("colon"),
                     Star("space"), Plus("not_space_comma_stop")>>,
       group |-> 4],
      [pattern |-> <<Plus("not_space_comma_stop"),
                     Literal(<<<<"U98CE", "U683C">>, <<"U6837", "U5F0F">>>>)>>,
       group |-> 1],
      [pattern |-> <<Literal(<<<<"U505A", "U6210">>, <<"U5236", "U4F5C",
          "U6210">>, <<"U8BBE", "U8BA1", "U6210">>>>),
                     Star("space"), Plus("not_space_comma_stop")>>,
       group |-> 3]>>

\* MessageParser._extract_style: an Optional[str]
_extract_style(message) ==
    LET known == {i \in 1..Len(style_keywords) :
                    contains(message, style_keywords[i][1])}
        hits == {i \in 1..Len(style_patterns) :
                   search(style_patterns[i].pattern, TRUE, message).ok}
        first == style_patterns[SetMin(hits)]
        style_text == strip(group(search(first.pattern, TRUE, message),
                                  message, first.group))
    IN  IF known # {} THEN <<style_keywords[SetMin(known)][2]>>
        ELSE IF hits = {} THEN <<>>
        ELSE IF get(style_keywords, style_text) \notin {<<>>, <<<<>>>>}
             THEN get(style_keywords, style_text)
        ELSE <<style_text>>

\* count_patterns of _extract_count, each with the item that is its group
count_patterns ==
    <<[pattern |-> <<Plus("digit"), Star("space"), Literal(<<<<"U5F20">>>>)>>,
       group |-> 1],
      [pattern |-> <<Plus("digit"), Star("space"), Literal(<<<<"U4E2A">>>>)>>,
       group |-> 1],
      [pattern |-> <<Plus("digit"), Star("space"), Literal(<<<<"U5E45">>>>)>>,
       group |-> 1],
      [pattern |-> <<Literal(<<<<"U751F", "U6210">>>>), Star("space"),
          Plus("digit")>>,
       group |-> 3],
      [pattern |-> <<Literal(<<<<"U753B">>>>), Star("space"), Plus("digit")>>,
       group |-> 3],
      [pattern |-> <<Plus("digit"), Star("space"), Literal(<<<<"p", "i",
          "c">>>>),
                     Optional("s")>>,
       group |-> 1],
      [pattern |-> <<Plus("digit"), Star("space"),
                     Literal(<<<<"i", "m", "a", "g", "e">>>>), Optional("s")>>,
       group |-> 1]>>

\* MessageParser._extract_count: max(1, min(count, 10)), 1 by default
_extract_count(message) ==
    LET hits == {i \in 1..Len(count_patterns) :
                   search(count_patterns[i].pattern, TRUE, message).ok}
        first == count_patterns[SetMin(hits)]
        count == int(group(search(first.pattern, TRUE, message), message,
                           first.group))
    IN  IF hits = {} THEN 1
        ELSE IF count < 1 THEN 1 ELSE IF count > 10 THEN 10 ELSE count

\* seed_patterns of _extract_seed; the group is the fourth item of each
seed_patterns ==
    <<<<Literal(<<<<"s", "e", "e", "d">>>>), Optional("colon"), Star("space"),
        Plus("digit")>>,
      <<Literal(<<<<"U79CD", "U5B50">>>>), Optional("colon"), Star("space"),
        Plus("digit")>>,
      <<Literal(<<<<"U968F", "U673A", "U79CD", "U5B50">>>>),
        Optional("colon"), Star("space"), Plus("digit")>>>>

\* MessageParser._extract_seed: an Optional[int]
_extract_seed(message) ==
    LET hits == {i \in 1..Len(seed_patterns) :
                   search(seed_patterns[i], TRUE, message).ok}
        first == seed_patterns[SetMin(hits)]
    IN  IF hits = {} THEN <<>>
        ELSE <<int(group(search(first, TRUE, message), message, 4))>>

\* MessageParser._extract_quality: an Optional[str]
_extract_quality(message) ==
    LET hits == {i \in 1..Len(quality_keywords) :
                   contains(message, quality_keywords[i][1])}
    IN  IF hits = {} THEN <<>> ELSE <<quality_keywords[SetMin(hits)][2]>>

\* for pattern in patterns: string = re.sub(pattern, "", string, IGNORECASE)
RECURSIVE SubAll(_, _, _)
SubAll(patterns, i, string) ==
    IF i > Len(patterns) THEN string
    ELSE With(sub(patterns[i], TRUE, <<>>, string),
              LAMBDA cleaned : SubAll(patterns, i + 1, cleaned))

\* for word in words: string = string.replace(word, "")
RECURSIVE ReplaceAll(_, _, _)
ReplaceAll(words, i, string) ==
    IF i > Len(words) THEN string
    ELSE With(replace(string, words[i]),
              LAMBDA cleaned : ReplaceAll(words, i + 1, cleaned))

\* the count_patterns of _extract_prompts (line 356): the first five of
\* _extract_count
prompt_count_patterns ==
    [i \in 1..5 |-> count_patterns[i].pattern]

\* lines 345-367: the tag, the sizes, the styles, the counts, the qualities
\* and the trigger words are removed from the message
cleaned_message(message) ==
    LET untagged == sub(at_pattern, FALSE, <<>>, message)
        unsized == SubAll([i \in 1..Len(size_patterns) |->
                             size_patterns[i].pattern], 1, untagged)
        unstyled == ReplaceAll([i \in 1..Len(style_keywords) |->
                                  style_keywords[i][1]], 1, unsized)
        uncounted == SubAll(prompt_count_patterns, 1, unstyled)
        unqualified == ReplaceAll([i \in 1..Len(quality_keywords) |->
                                     quality_keywords[i][1]], 1, uncounted)
    IN  ReplaceAll(trigger_words, 1, unqualified)

\* keyword\s*([^ UFF0C , U3002 UFF1B ;]+) with the keyword escaped
negative_pattern(keyword) ==
    <<Literal(<<keyword>>), Star("space"), Plus("not_separator")>>

\* keyword\s*match with both escaped
remove_pattern(keyword, match) ==
    <<Literal(<<keyword>>), Star("space"), Literal(<<match>>)>>

\* lines 382-386, for match in matches: the parts collected and what is
\* left of positive_prompt
RECURSIVE TakeMatches(_, _, _, _)
TakeMatches(keyword, matches, i, state) ==
    IF i > Len(matches) THEN state
    ELSE With([negative_parts |-> Append(state.negative_parts,
                                         strip(matches[i])),
               positive_prompt |-> sub(remove_pattern(keyword, matches[i]),
                                       TRUE, <<>>, state.positive_prompt)],
              LAMBDA taken : TakeMatches(keyword, matches, i + 1, taken))

\* lines 377-386, for keyword in negative_keywords
RECURSIVE TakeKeywords(_, _, _)
TakeKeywords(negative_keywords, k, state) ==
    IF k > Len(negative_keywords) THEN state
    ELSE With(findall(negative_pattern(negative_keywords[k]), TRUE, 3,
                      state.positive_prompt),
              LAMBDA matches :
                With(TakeMatches(negative_keywords[k], matches, 1, state),
                     LAMBDA taken :
                       TakeKeywords(negative_keywords, k + 1, taken)))

\* ", ".join(parts)
RECURSIVE join(_, _)
join(separator, parts) ==
    IF parts = <<>> THEN <<>>
    ELSE IF Len(parts) = 1 THEN parts[1]
    ELSE parts[1] \o separator \o join(separator, Tail(parts))

\* MessageParser._extract_prompts: <<positive_prompt, negative_prompt>>
_extract_prompts(message, negative_keywords) ==
    With([negative_parts |-> <<>>,
          positive_prompt |-> cleaned_message(message)],
         LAMBDA cleaned :
           With(TakeKeywords(negative_keywords, 1, cleaned),
                LAMBDA taken :
                  <<strip(sub(<<Plus("space")>>, FALSE, <<" ">>,
                              sub(<<Plus("separator")>>, FALSE, <<" ">>,
                                  taken.positive_prompt))),
                    join(<<",", " ">>, taken.negative_parts)>>))

\* MessageParser._parse_message_sync: the ParsedMessage it returns
_parse_message_sync(message, negative_keywords, default_provider) ==
    LET prompts == _extract_prompts(message, negative_keywords)
    IN  [raw_message |-> message,
         provider_name |-> IF _extract_provider(message) # <<>>
                           THEN _extract_provider(message)[1]
                           ELSE default_provider,
         size |-> _extract_size(message),
         style |-> _extract_style(message),
         count |-> _extract_count(message),
         seed |-> _extract_seed(message),
         quality |-> _extract_quality(message),
         prompt |-> prompts[1],
         negative_prompt |-> prompts[2]]

\* a keyword that is no str, such as None in the configured list
NotAStr == <<None>>

\* isinstance(value, str)
IsStr(value) == None \notin Range(value)

\* the exception _parse_message_sync ends in, <<>> when it returns:
\* re.escape(keyword) of line 379 raises TypeError on a keyword that is no
\* str; the int() calls of the stages are guarded by their own handlers
SyncRaises(negative_keywords) ==
    IF \E k \in DOMAIN negative_keywords : ~IsStr(negative_keywords[k])
    THEN <<"TypeError">>
    ELSE <<>>

\* ParsedMessage(prompt=..., raw_message=..., provider_name=...): the
\* other fields take the defaults of lines 16-25
ParsedMessage(prompt, raw_message, provider_name) ==
    [raw_message |-> raw_message,
     provider_name |-> provider_name,
     size |-> <<>>,
     style |-> <<>>,
     count |-> 1,
     seed |-> <<>>,
     quality |-> <<>>,
     prompt |-> prompt,
     negative_prompt |-> <<>>]

\* faulty variant: parse_message has no handler
CaughtByNoParser(e) == FALSE

\* line 161, "except Exception": the exceptions parse_message catches
CaughtByParser(e) == TRUE

\* MessageParser.parse_message with a text and a list of keywords: the
\* ParsedMessage returned, or the exception that leaves the call
parse_message(message, negative_keywords, default_provider) ==
    LET e == SyncRaises(negative_keywords)
    IN  IF e = <<>>
        THEN _parse_message_sync(message, negative_keywords,
                                 default_provider)
        ELSE IF CaughtByParser(e[1])
             THEN ParsedMessage(message, message, default_provider)
             ELSE [exception |-> e[1]]

\* a call of parse_message on its own
call_parse_message ==
    /\ pure.fn = "parse_message"
    /\ ~pure.returned
    /\ pure' = [pure EXCEPT
                  !.returned = TRUE,
                  !.output = parse_message(pure.input.message,
                                           pure.input.negative_keywords,
                                           pure.input.default_provider)]
    /\ UNCHANGED <<manager_vars, request_vars, seen_enabled, sel, ops,
                   started, hc>>

(* --------------------------- specification ---------------------------- *)
Outcomes == {"success", "failure", "raise"}
Raises == {"ok", "raise"}

\* the steps of call r that the event loop and the adapters owe it
Step(r) ==
    \/ Select(r)
    \/ \E v \in Raises : Begin(r, v)
    \/ \E v \in Raises : Try(r, v)
    \/ \E o \in Outcomes : AdapterReturn(r, o)
    \/ Wake(r)
    \/ \E d \in Durations : Finish(r, d)

\* One generate_image call, with any arguments and any adapter behaviour,
\* next to at most MaxOps manager operations in any interleaving.
Next ==
    \/ ops < MaxOps /\ \E n \in Names, en \in BOOLEAN : register_provider(n, en)
    \/ ops < MaxOps /\ \E n \in Names : unregister_provider(n)
    \/ ops < MaxOps /\ \E n \in Names : enable_provider(n)
    \/ ops < MaxOps /\ \E n \in Names : disable_provider(n)
    \/ /\ ops < MaxOps
       /\ \E s \in LoadBalanceStrategy \cup {"unknown"} :
            set_load_balance_strategy(s)
    \/ ops < MaxOps /\ \E n \in Names \cup {None} : reset_stats(n)
    \/ ops < MaxOps /\ \E b \in BOOLEAN : set_fallback_enabled(b)
    \/ \E n \in Names \cup {None}, uf \in UseFallbackChoices :
           generate_image("r1", DefaultParams, n, uf)
    \/ Step("r1")

Spec == Init /\ [][Next]_vars

\* every adapter call returns or raises, every sleep ends, and the event
\* loop resumes a coroutine that is ready
FairSpec == Spec /\ WF_vars(Step("r1"))

\* Up to MaxSelectorCalls calls one after the other, the adapters answering
\* whenever they are invoked, with at most MaxSelectorOps registry
\* operations between the calls.
Quiet == \A r \in Reqs : pc[r] = "idle"

SelectorNext ==
    \/ /\ ops < MaxSelectorOps /\ Quiet
       /\ \E n \in Names, en \in BOOLEAN : register_provider(n, en)
    \/ ops < MaxSelectorOps /\ Quiet /\ \E n \in Names : unregister_provider(n)
    \/ ops < MaxSelectorOps /\ Quiet /\ \E n \in Names : enable_provider(n)
    \/ ops < MaxSelectorOps /\ Quiet /\ \E n \in Names : disable_provider(n)
    \/ /\ ops < MaxSelectorOps /\ Quiet
       /\ \E s \in LoadBalanceStrategy : set_load_balance_strategy(s)
    \/ /\ started < MaxSelectorCalls
       /\ \E n \in Names \cup {None} : generate_image("r1", DefaultParams, n, None)
    \/ Select("r1")
    \/ Begin("r1", "ok")
    \/ Try("r1", "ok")
    \/ AdapterReturn("r1", "success")
    \/ \E d \in Durations : Finish("r1", d)
    \/ Return("r1")

\* the adapters are configured to be tried at least once
SelectorInit == Init /\ max_retries = MaxRetries

SelectorSpec == SelectorInit /\ [][SelectorNext]_vars

\* One call with any arguments and any adapter behaviour, the adapters
\* (at most MaxRetryOps registrations) configured with up to MaxTries tries.
RetryInit ==
    /\ InitManager
    /\ max_retries \in 0..MaxTries
    /\ pure = NoCall

RetryNext ==
    \/ /\ ops < MaxRetryOps
       /\ \E n \in Names, en \in BOOLEAN : register_provider(n, en)
    \/ \E n \in Names \cup {None}, uf \in UseFallbackChoices :
           generate_image("r1", DefaultParams, n, uf)
    \/ Step("r1")

RetrySpec == RetryInit /\ [][RetryNext]_vars

\* Two generate_image calls on one event loop, each with one try per
\* adapter (so that no call ever sleeps), next to at most MaxConcurrentOps
\* registrations and resets.
ConcurrentInit ==
    /\ InitManager
    /\ max_retries = 1
    /\ pure = NoCall

ConcurrentNext ==
    \/ /\ ops < MaxConcurrentOps
       /\ \E n \in Names, en \in BOOLEAN : register_provider(n, en)
    \/ ops < MaxConcurrentOps /\ \E n \in Names \cup {None} : reset_stats(n)
    \/ \E r \in Reqs, n \in Names \cup {None} : generate_image(r, DefaultParams, n, None)
    \/ \E r \in Reqs : Select(r)
    \/ \E r \in Reqs, v \in Raises : Begin(r, v)
    \/ \E r \in Reqs, v \in Raises : Try(r, v)
    \/ \E r \in Reqs, o \in Outcomes : AdapterReturn(r, o)
    \/ \E r \in Reqs, d \in Durations : Finish(r, d)

ConcurrentSpec == ConcurrentInit /\ [][ConcurrentNext]_vars

\* One health sweep over the adapters, each probe coming to any outcome,
\* next to at most MaxHealthOps registry operations in any interleaving.
HealthInit ==
    /\ InitManager
    /\ max_retries = 1
    /\ pure = NoCall

HealthNext ==
    \/ /\ ops < MaxHealthOps
       /\ \E n \in Names, en \in BOOLEAN : register_provider(n, en)
    \/ ops < MaxHealthOps /\ \E n \in Names : unregister_provider(n)
    \/ health_check_all
    \/ \E i \in 1..Cardinality(Names), o \in ProbeOutcomes : Probe(i, o)
    \/ Gathered

HealthSpec == HealthInit /\ [][HealthNext]_vars

\* the event loop runs every task that is ready: a pending probe comes to
\* an outcome (which may be that it hangs) and a finished gather is resumed
FairHealthSpec ==
    /\ HealthSpec
    /\ \A i \in 1..Cardinality(Names) :
         WF_vars(\E o \in ProbeOutcomes : Probe(i, o))
    /\ WF_vars(Gathered)

\* preprocess_params applied to any request and any capability descriptor
PreprocessInit ==
    /\ InitManager
    /\ max_retries = 1
    /\ \E p \in ParamsInputs, c \in CapabilityInputs :
         pure = [fn |-> "preprocess_params",
                 input |-> [params |-> p, capabilities |-> c],
                 returned |-> FALSE, output |-> None]

PreprocessNext == call_preprocess_params

PreprocessSpec == PreprocessInit /\ [][PreprocessNext]_vars

\* generation_params read from any extraction result
ConversionInit ==
    /\ InitManager
    /\ max_retries = 1
    /\ \E m \in ParsedMessages :
         pure = [fn |-> "generation_params", input |-> m,
                 returned |-> FALSE, output |-> None]

ConversionNext == call_generation_params

ConversionSpec == ConversionInit /\ [][ConversionNext]_vars

\* One health sweep next to up to MaxSweepCalls calls of generate_image and
\* at most MaxSweepOps registrations and strategy changes, in any
\* interleaving.
SweepNext ==
    \/ /\ ops < MaxSweepOps
       /\ \E n \in Names, en \in BOOLEAN : register_provider(n, en)
    \/ ops < MaxSweepOps /\ set_load_balance_strategy(ROUND_ROBIN)
    \/ started < MaxSweepCalls /\ generate_image("r1", DefaultParams, None, None)
    \/ Select("r1")
    \/ Begin("r1", "ok")
    \/ Try("r1", "ok")
    \/ \E o \in Outcomes : AdapterReturn("r1", o)
    \/ \E d \in Durations : Finish("r1", d)
    \/ Return("r1")
    \/ health_check_all
    \/ \E i \in 1..Cardinality(Names), o \in ProbeStatuses : Probe(i, o)
    \/ Gathered

SweepSpec == HealthInit /\ [][SweepNext]_vars

\* One call after the other with any request, next to at most MaxChainOps
\* registrations of enabled adapters; every adapter call succeeds or fails.
ChainNext ==
    \/ ops < MaxChainOps /\ \E n \in Names : register_provider(n, TRUE)
    \/ /\ started < MaxChainCalls
       /\ \E p \in ParamsInputs : generate_image("r1", p, None, None)
    \/ Select("r1")
    \/ Begin("r1", "ok")
    \/ Try("r1", "ok")
    \/ \E o \in {"success", "failure"} : AdapterReturn("r1", o)
    \/ \E d \in Durations : Finish("r1", d)
    \/ Return("r1")

ChainSpec == HealthInit /\ [][ChainNext]_vars

\* One call with fallback next to at most MaxInterleaveOps register, enable
\* and disable operations, which run before the call and while it awaits an
\* adapter, until it returns.
InterleaveNext ==
    \/ /\ ops < MaxInterleaveOps /\ pc["r1"] # "done"
       /\ \E n \in Names, en \in BOOLEAN : register_provider(n, en)
    \/ /\ ops < MaxInterleaveOps /\ pc["r1"] # "done"
       /\ \E n \in Names : enable_provider(n)
    \/ /\ ops < MaxInterleaveOps /\ pc["r1"] # "done"
       /\ \E n \in Names : disable_provider(n)
    \/ generate_image("r1", DefaultParams, None, "True")
    \/ Select("r1")
    \/ Begin("r1", "ok")
    \/ Try("r1", "ok")
    \/ \E o \in {"success", "failure"} : AdapterReturn("r1", o)
    \/ \E d \in Durations : Finish("r1", d)

InterleaveSpec == HealthInit /\ [][InterleaveNext]_vars

\* the messages in use: an optional provider tag, a verb, a subject, an
\* optional size word and an optional negative part
Tags ==
    {<<>>,
     <<"@", "v", "o", "l", "c", "a", "n", "o", " ">>,
     <<"@", "v", "o", "l", "c", "e", "n", "g", "i", "n", "e", " ">>,
     <<"@", "U706B", "U5C71", " ">>}

Verbs ==
    {<<"d", "r", "a", "w", " ">>,
     <<"U753B">>}

Subjects ==
    {<<"a", " ", "c", "a", "t">>,
     <<"a", " ", "l", "a", "n", "d", "s", "c", "a", "p", "e">>}

SizeWords ==
    {<<>>,
     <<" ", "1", "0", "2", "4", "x", "1", "0", "2", "4">>,
     <<" ", "4", "k">>}

NegativeParts ==
    {<<>>,
     <<" ", "a", "v", "o", "i", "d", " ", "b", "a", "c", "k", "g", "r", "o",
         "u", "n", "d">>}

Messages ==
    {t \o v \o s \o z \o n :
       t \in Tags, v \in Verbs, s \in Subjects, z \in SizeWords,
       n \in NegativeParts}

\* the lists of negative keywords in use: [] and ["avoid"]
NegativeKeywordLists == {<<>>, <<<<"a", "v", "o", "i", "d">>>>}

\* default_provider="tongyi" (line 136)
default_provider == <<"t", "o", "n", "g", "y", "i">>

\* parse_message applied to any of the messages and keyword lists
ParserInit ==
    /\ InitManager
    /\ max_retries = 1
    /\ \E m \in Messages, k \in NegativeKeywordLists :
         pure = [fn |-> "parse_message",
                 input |-> [message |-> m, negative_keywords |-> k,
                            default_provider |-> default_provider],
                 returned |-> FALSE, output |-> None]

ParserNext == call_parse_message

ParserSpec == ParserInit /\ [][ParserNext]_vars

\* the messages of the extraction stages: a verb, an optional size right
\* after it, a subject and an optional tail with negative spans
LeadingSizes ==
    {<<>>,
     <<"5", "1", "2", "x", "5", "1", "2", " ">>,
     <<"1", "0", "2", "4", "x", "7", "6", "8", " ">>}

NegativeTails ==
    {<<>>,
     <<" ", "a", "v", "o", "i", "d", " ", "b", "a", "c", "k", "g", "r", "o",
         "u", "n", "d">>,
     <<",", " ", "a", "v", "o", "i", "d", " ", "b", "l", "u", "r", ",", " ",
         "a", "v", "o", "i", "d", " ", "n", "o", "i", "s", "e">>,
     <<",", " ", "a", "v", "o", "i", "d", " ", "b", "l", "u", "r", ",", " ",
         "w", "i", "t", "h", "o", "u", "t", " ", "n", "o", "i", "s", "e">>}

ExtractionMessages ==
    {v \o z \o s \o n :
       v \in Verbs, z \in LeadingSizes, s \in Subjects, n \in NegativeTails}

\* the keyword lists of the extraction stages: [], ["avoid"],
\* ["avoid", "without"], [None] and ["avoid", None]
ExtractionKeywordLists ==
    {<<>>,
     <<<<"a", "v", "o", "i", "d">>>>,
     <<<<"a", "v", "o", "i", "d">>, <<"w", "i", "t", "h", "o", "u", "t">>>>,
     <<NotAStr>>,
     <<<<"a", "v", "o", "i", "d">>, NotAStr>>}

\* parse_message applied to any of these messages and keyword lists
ExtractionInit ==
    /\ InitManager
    /\ max_retries = 1
    /\ \E m \in ExtractionMessages, k \in ExtractionKeywordLists :
         pure = [fn |-> "parse_message",
                 input |-> [message |-> m, negative_keywords |-> k,
                            default_provider |-> default_provider],
                 returned |-> FALSE, output |-> None]

ExtractionNext == call_parse_message

ExtractionSpec == ExtractionInit /\ [][ExtractionNext]_vars

TypeOK ==
    /\ Range(enabled_providers) \subseteq Names
    /\ NoDuplicates(enabled_providers)
    /\ DOMAIN provider_stats = Registered
    /\ running \in Reqs \cup {None}

(* ------------------------------ properties ---------------------------- *)
\* C1: every generate_image call that has started returns, whatever the
\* strategy, the explicit name and use_fallback, given that every adapter
\* call and every sleep ends and max_retries is finite.
C1_Terminates == \A r \in Reqs : (pc[r] # "idle") ~> (pc[r] = "done")

\* a call that ran through both adapters and gave up
C1_Witness ==
    /\ pc["r1"] = "done"
    /\ result["r1"].kind = "all_failed"
    /\ Len(attempted["r1"]) = 2

\* C2: within one call no adapter is attempted twice, the explicitly
\* requested one included; every adapter attempted was listed as enabled
\* during the call, so the attempts never outnumber the enabled adapters.
C2_AttemptedOnce ==
    \A r \in Reqs :
        /\ NoDuplicates(attempted[r])
        /\ Range(attempted[r]) \subseteq seen_enabled[r]
        /\ Len(attempted[r]) <= Cardinality(seen_enabled[r])

\* the explicitly requested adapter failed and the other one was tried next
C2_Witness ==
    /\ pc["r1"] = "done"
    /\ rq["r1"].provider_name = "B"
    /\ attempted["r1"] = <<"B", "A">>

\* C3: a call that ends for want of a candidate reports "no provider
\* available" only if it attempted no adapter; if it attempted one, it
\* reports "all providers exhausted" with the error of the last adapter
\* attempted.
C3_ExhaustionMessage ==
    \A r \in Reqs :
        (pc[r] = "done" /\ result[r].kind \in {"no_provider", "all_failed"})
        => IF attempted[r] = <<>>
           THEN result[r].kind = "no_provider"
           ELSE /\ result[r].kind = "all_failed"
                /\ result[r].provider = attempted[r][Len(attempted[r])]

\* C4: an explicit name that is not registered is answered "not found", one
\* that is registered but disabled is answered "disabled"; the call returns
\* at once, no adapter is attempted or invoked, nothing sleeps, and the
\* statistics and the round-robin cursor stay as they were.
C4_ExplicitRefused ==
    [][\A r \in Reqs :
         LET n == rq'[r].provider_name
         IN  (/\ pc[r] = "idle" /\ pc'[r] # "idle"
              /\ n # None
              /\ ~(n \in Registered /\ ConfigEnabled(n)))
             => /\ pc'[r] = "done"
                /\ result'[r].kind =
                     IF n \in Registered THEN "disabled" ELSE "not_found"
                /\ attempted'[r] = <<>>
                /\ calls'[r] = 0
                /\ sleeps'[r] = <<>>
                /\ provider_stats' = provider_stats
                /\ current_provider_index' = current_provider_index]_vars

\* a disabled adapter was requested with fallback on and another one enabled
C4_Witness ==
    /\ pc["r1"] = "done"
    /\ result["r1"].kind = "disabled"
    /\ rq["r1"].use_fallback
    /\ enabled_providers # <<>>

\* C5: use_fallback left unset takes the value of fallback_enabled; a call
\* whose use_fallback is false attempts at most one adapter, the explicit
\* one when one was named, and returns that adapter's own result.
C5_NoFallback ==
    [][\A r \in Reqs :
         /\ (pc[r] = "idle" /\ pc'[r] # "idle")
            => rq'[r].use_fallback =
                 IF rq'[r].arg_use_fallback = None THEN fallback_enabled
                 ELSE rq'[r].arg_use_fallback = "True"
         /\ (pc'[r] # "idle" /\ ~rq'[r].use_fallback)
            => /\ Len(attempted'[r]) <= 1
               /\ (attempted'[r] # <<>> /\ rq'[r].provider_name # None)
                  => attempted'[r][1] = rq'[r].provider_name
               /\ (pc'[r] = "done" /\ attempted'[r] # <<>>)
                  => /\ result'[r].kind \in {"success", "failure", "exception"}
                     /\ result'[r].provider = attempted'[r][1]]_vars

\* use_fallback unset, the flag off: the failure of the one adapter
\* attempted is returned although another adapter is enabled
C5_Witness ==
    /\ pc["r1"] = "done"
    /\ rq["r1"].arg_use_fallback = None
    /\ ~rq["r1"].use_fallback
    /\ result["r1"].kind = "failure"
    /\ Len(attempted["r1"]) = 1
    /\ Len(enabled_providers) = 2

C7_RoundRobinCycle ==
    (sel.clean /\ sel.calls >= 1)
    => /\ enabled_providers # <<>>
       /\ sel.last =
            enabled_providers[((sel.calls - 1) % Len(enabled_providers)) + 1]

\* A, B, then A again
C7_Witness ==
    /\ sel.clean
    /\ sel.calls = 3
    /\ Len(enabled_providers) = 2

\* the enabled registered names outside the exclusion set
Candidates(exclude_providers) ==
    (Range(enabled_providers) \cap Registered) \ exclude_providers

\* the one of the candidates that was registered first
EarliestRegistered(candidates) ==
    IF candidates = {} THEN None
    ELSE providers[CHOOSE i \in 1..Len(providers) :
                     /\ providers[i].name \in candidates
                     /\ \A j \in 1..(i - 1) : providers[j].name \notin candidates
                  ].name

\* C8: after any sequence of register, unregister, enable and disable
\* operations, the priority Selector returns the earliest-registered
\* adapter among the enabled ones that are not excluded.
C8_PriorityRegistrationOrder ==
    load_balance_strategy = PRIORITY
    => \A ex \in SUBSET Names :
         \A s \in _select_provider(ex) :
            s.name = EarliestRegistered(Candidates(ex))

\* C9: the fastest Selector returns an enabled, non-excluded adapter of
\* minimal avg_response_time, the one registered first when several share
\* the minimum.
C9_FastestTieByRegistration ==
    load_balance_strategy = FASTEST
    => \A ex \in SUBSET Names :
         \A s \in _select_provider(ex) :
            LET c == Candidates(ex)
                avg(n) == provider_stats[n].avg_response_time
                fastest == {n \in c : \A m \in c : ~RatLess(avg(m), avg(n))}
            IN  s.name = EarliestRegistered(fastest)

\* C10: in every manager state and for every exclusion set the cheapest
\* Selector returns what the priority Selector returns, and leaves the
\* cursor where it was.
C10_CheapestIsPriority ==
    \A ex \in SUBSET Names :
        /\ SelectUnder(CHEAPEST, ex) = SelectUnder(PRIORITY, ex)
        /\ \A s \in SelectUnder(CHEAPEST, ex) : s.index = current_provider_index

\* the cheapest Selector has just chosen among two adapters, one excluded
C10_Witness ==
    /\ load_balance_strategy = CHEAPEST
    /\ pc["r1"] = "begin"
    /\ rq["r1"].path = "loop"
    /\ rq["r1"].excluded_providers # <<>>
    /\ Len(enabled_providers) = 2

\* the call is inside generate_with_retry
InRetry(r) == pc[r] \in {"try", "adapter", "sleeping", "finish"}

\* generate_with_retry ended without a successful try
Exhausted(r) == pc[r] = "finish" /\ rq[r].outcome = "failure"

\* the adapter's generate is being awaited or has just succeeded
CallCounted(r) ==
    \/ pc[r] = "adapter"
    \/ pc[r] = "finish" /\ rq[r].outcome = "success"

C11_Counts ==
    \A r \in Reqs :
        InRetry(r)
        => /\ rq[r].invoked <= max_retries
           /\ rq[r].invoked + rq[r].skipped =
                rq[r].attempt + (IF CallCounted(r) THEN 1 ELSE 0)
           /\ Exhausted(r) => rq[r].attempt = max_retries

\* C11: one invocation of generate_with_retry calls the adapter's generate
\* at most max_retries times, once in every try whose preprocessing did
\* not raise; a successful call is the last one and its result is
\* returned; when every try fails there are exactly max_retries tries,
\* hence exactly max_retries calls when each of them reached generate.
C11_RetryCalls ==
    [][/\ C11_Counts'
       /\ \A r \in Reqs :
            (pc[r] = "finish" /\ rq[r].outcome = "success")
            => /\ pc'[r] = "done"
               /\ result'[r] = [kind |-> "success", provider |-> rq[r].provider]
               /\ calls'[r] = calls[r]]_vars

\* three tries, three calls of generate, all failed
C11_Witness ==
    /\ Exhausted("r1")
    /\ max_retries = MaxTries
    /\ rq["r1"].invoked = max_retries

\* C12: the sleeps of one invocation of generate_with_retry: the i-th
\* lasts retry_delay * i and follows the i-th failed try, there is none
\* before the first try and none after the last, so an invocation whose
\* tries all fail sleeps max_retries - 1 times.
C12_Sleeps ==
    \A r \in Reqs :
        InRetry(r)
        => /\ \A i \in 1..Len(rq[r].slept) : rq[r].slept[i] = retry_delay * i
           /\ Len(rq[r].slept) =
                IF Exhausted(r)
                THEN (IF max_retries = 0 THEN 0 ELSE max_retries - 1)
                ELSE rq[r].attempt
           /\ pc[r] = "sleeping"
              => (1 <= rq[r].attempt /\ rq[r].attempt <= max_retries - 1)

\* three failed tries with the two sleeps between them
C12_Witness ==
    /\ Exhausted("r1")
    /\ rq["r1"].slept = <<retry_delay, retry_delay * 2>>

\* C13: no exception of an adapter's validate, preprocess or generate step
\* ends generate_image; when the tries are used up the failure states the
\* number of tries and the error of the last one.
C13_ExceptionsContained ==
    \A r \in Reqs :
        /\ pc[r] # "escaped"
        /\ Exhausted(r)
           => rq[r].message =
                RetryExhausted(max_retries, rq[r].attempt)

\* the tries are used up, the preprocessing of one of them having raised
C13_Witness ==
    /\ Exhausted("r1")
    /\ rq["r1"].skipped >= 1
    /\ rq["r1"].invoked >= 1
    /\ rq["r1"].message.last_error = max_retries

\* the counters of every adapter add up
C14_Balanced ==
    \A n \in DOMAIN provider_stats :
        provider_stats[n].total_requests =
            provider_stats[n].successful_requests
            + provider_stats[n].failed_requests

\* this step ends the attempt of call r on rq[r].provider
AttemptEnds(r) ==
    \/ pc[r] = "finish" /\ pc'[r] # "finish"
    \/ pc[r] = "begin" /\ pc'[r] \notin {"begin", "try"}

\* C14: the end of every attempt (explicit path or loop; success, failure
\* or exception) adds one to the adapter's total_requests and one to
\* exactly one of successful_requests and failed_requests, and in every
\* state, also between the steps of two calls that run concurrently,
\* total_requests = successful_requests + failed_requests.
C14_TotalsAddUp ==
    [][/\ C14_Balanced'
       /\ \A r \in Reqs :
            (AttemptEnds(r) /\ ~rq[r].stale)
            => LET a == provider_stats[rq[r].provider]
                   b == provider_stats'[rq[r].provider]
               IN  /\ b.total_requests = a.total_requests + 1
                   /\ \/ /\ b.successful_requests = a.successful_requests + 1
                         /\ b.failed_requests = a.failed_requests
                      \/ /\ b.successful_requests = a.successful_requests
                         /\ b.failed_requests = a.failed_requests + 1]_vars

\* one call has finished its attempt on A while the other awaits A
C14_Witness ==
    /\ pc["r1"] = "adapter"
    /\ rq["r1"].provider = "A"
    /\ pc["r2"] = "done"
    /\ attempted["r2"] = <<"A">>
    /\ "A" \in DOMAIN provider_stats
    /\ provider_stats["A"].total_requests = 1

\* C15: avg_response_time of every adapter is the arithmetic mean of the
\* durations of the attempts counted in its total_requests since its
\* statistics were last reset.
C15_AverageIsMean ==
    \A n \in DOMAIN provider_stats :
        provider_stats[n].avg_response_time =
            IF provider_stats[n].total_requests = 0 THEN <<0, 1>>
            ELSE Reduce(provider_stats[n].durations,
                        provider_stats[n].total_requests)

\* the i-th probe of the sweep has returned or raised
ProbeCompleted(i) ==
    /\ hc.pc = "gather"
    /\ i \in 1..Len(hc.probes)
    /\ hc.probes[i] \in ProbeStatuses \cup {"raised"}

\* C16: in health_check_all a probe that raises or never completes does not
\* keep the results of the other probes from being collected: once a probe
\* of the sweep has completed, the sweep gets past its gather and goes on
\* to build the entries it returns and records.
C16_ProbesIsolated ==
    \A i \in 1..Cardinality(Names) :
        ProbeCompleted(i) ~> (hc.pc # "gather")

\* C17: for every request and capability descriptor, preprocess_params
\* yields the capability maximum as count when the requested count exceeds
\* it and the requested count otherwise, and yields the first supported
\* size when the request has no size (and the capability lists one) and
\* the requested size otherwise.
C17_Preprocess ==
    (pure.fn = "preprocess_params" /\ pure.returned)
    => LET p == pure.input.params
           c == pure.input.capabilities
           q == pure.output
       IN  /\ q.num_images = IF p.num_images > c.max_images_per_request
                             THEN c.max_images_per_request
                             ELSE p.num_images
           /\ p.size # None => q.size = p.size
           /\ (p.size = None /\ c.supported_sizes # <<>>)
              => q.size = Head(c.supported_sizes)
           /\ (p.size = None /\ c.supported_sizes = <<>>) => q.size = None

\* a request without size and with too many images has been preprocessed
C17_Witness ==
    /\ pure.fn = "preprocess_params"
    /\ pure.returned
    /\ pure.input.params.size = None
    /\ pure.input.capabilities.supported_sizes = <<"1024x1024", "512x512">>
    /\ pure.input.params.num_images > pure.input.capabilities.max_images_per_request
    /\ pure.output.size = "1024x1024"

\* C18: ParsedMessage.generation_params succeeds for every extraction result
\* and yields a request whose prompt, negative prompt, size, style, count,
\* seed and quality are the extracted ones.
C18_ConversionSucceeds ==
    (pure.fn = "generation_params" /\ pure.returned)
    => /\ ~pure.output.raised
       /\ LET m == pure.input
              q == pure.output.value
          IN  /\ q.prompt = m.prompt
              /\ q.negative_prompt = IF m.negative_prompt # ""
                                     THEN m.negative_prompt ELSE None
              /\ q.size = m.size
              /\ q.style = m.style
              /\ q.num_images = m.count
              /\ q.seed = m.seed
              /\ q.quality = m.quality

\* parse_message has returned for this message
Parsed(message) ==
    /\ pure.fn = "parse_message"
    /\ pure.returned
    /\ pure.input.message = message

\* C19: from "@volcano draw a cat 1024x1024 avoid background" with a
\* negative keyword list that contains "avoid" the parser yields the
\* provider "volcengine", the size 1024x1024, the prompt "a cat" and the
\* negative prompt "background".
C19_VolcanoExample ==
    (/\ Parsed(<<"@", "v", "o", "l", "c", "a", "n", "o", " ", "d", "r", "a",
        "w", " ", "a", " ", "c", "a", "t", " ", "1", "0", "2", "4", "x", "1",
        "0", "2", "4", " ", "a", "v", "o", "i", "d", " ", "b", "a", "c", "k",
        "g", "r", "o", "u", "n", "d">>)
     /\ <<"a", "v", "o", "i", "d">> \in Range(pure.input.negative_keywords))
    => /\ pure.output.provider_name = <<"v", "o", "l", "c", "e", "n", "g", "i",
        "n", "e">>
       /\ pure.output.size = <<ImageSize(1024, 1024)>>
       /\ pure.output.prompt = <<"a", " ", "c", "a", "t">>
       /\ pure.output.negative_prompt = <<"b", "a", "c", "k", "g", "r", "o",
           "u", "n", "d">>

\* C20: from "draw a landscape 4k" the parser yields the size 2048x2048
\* and the prompt "a landscape".
C20_LandscapeExample ==
    Parsed(<<"d", "r", "a", "w", " ", "a", " ", "l", "a", "n", "d", "s", "c",
        "a", "p", "e", " ", "4", "k">>)
    => /\ pure.output.size = <<ImageSize(2048, 2048)>>
       /\ pure.output.prompt = <<"a", " ", "l", "a", "n", "d", "s", "c", "a",
           "p", "e">>

\* the fields of a ParsedMessage
ParsedMessageFields ==
    {"raw_message", "provider_name", "size", "style", "count", "seed",
     "quality", "prompt", "negative_prompt"}

\* C21: parse_message never raises: it returns a ParsedMessage for every
\* text and every keyword list, and when a stage faults the result has the
\* whole text as its prompt, no size, style, seed, quality or negative
\* prompt, the count 1 and the default provider.
C21_NeverRaises ==
    (pure.fn = "parse_message" /\ pure.returned)
    => /\ DOMAIN pure.output = ParsedMessageFields
       /\ SyncRaises(pure.input.negative_keywords) # <<>>
          => /\ pure.output.prompt = pure.input.message
             /\ pure.output.raw_message = pure.input.message
             /\ pure.output.provider_name = pure.input.default_provider
             /\ pure.output.size = <<>>
             /\ pure.output.style = <<>>
             /\ pure.output.seed = <<>>
             /\ pure.output.quality = <<>>
             /\ pure.output.negative_prompt = <<>>
             /\ pure.output.count = 1

\* a text with a size and a negative span was parsed with a keyword list
\* whose second keyword faults, and came back whole
C21_Witness ==
    /\ pure.fn = "parse_message"
    /\ pure.returned
    /\ pure.input.negative_keywords = <<<<"a", "v", "o", "i", "d">>, NotAStr>>
    /\ _extract_size(pure.input.message) # <<>>
    /\ contains(pure.input.message, <<"a", "v", "o", "i", "d">>)
    /\ DOMAIN pure.output = ParsedMessageFields
    /\ pure.output.prompt = pure.input.message

\* C22: under round_robin every Selector call that returns an adapter,
\* whatever its exclusion set, moves the cursor on by exactly one, wrapping
\* modulo the length of the enabled list.
C22_CursorAdvancesByOne ==
    (load_balance_strategy = ROUND_ROBIN /\ enabled_providers # <<>>)
    => \A ex \in SUBSET Names :
         \A s \in _select_provider(ex) :
            s.name # None
            => s.index % Len(enabled_providers) =
                 (current_provider_index + 1) % Len(enabled_providers)

\* the adapters that are registered, have their enabled flag set and are
\* outside the exclusion set
Usable(exclude_providers) ==
    {n \in Registered : ConfigEnabled(n) /\ n \notin exclude_providers}

\* C23: under every strategy and after any sequence of register,
\* unregister, enable and disable operations the Selector returns only an
\* adapter that is registered, has its enabled flag set and is not
\* excluded, and it returns None exactly when there is no such adapter.
C23_SelectorReturnsUsable ==
    \A ex \in SUBSET Names :
      \A s \in _select_provider(ex) :
         IF Usable(ex) = {} THEN s.name = None ELSE s.name \in Usable(ex)

\* C24: right after an attempt on an adapter ends, the adapter's
\* health_status is "healthy" when the attempt succeeded, "unhealthy" when
\* it returned a failure result and "error" when it ended in the handler
\* of an exception (the attempt writing to the statistics entry it read at
\* its start, which is still the adapter's entry).
C24_HealthFollowsOutcome ==
    [][\A r \in Reqs :
         (AttemptEnds(r) /\ ~rq[r].stale)
         => provider_stats'[rq[r].provider].health_status =
              IF pc[r] = "begin" THEN "error"
              ELSE IF rq[r].outcome = "success" THEN "healthy"
              ELSE "unhealthy"]_vars

\* an attempt on A ended in an exception and an attempt on B in a failure
\* result
C24_Witness ==
    /\ {"A", "B"} \subseteq DOMAIN provider_stats
    /\ provider_stats["A"].total_requests = 1
    /\ provider_stats["A"].health_status = "error"
    /\ provider_stats["B"].total_requests = 1
    /\ provider_stats["B"].health_status = "unhealthy"

\* every field but health_status of every statistics entry is kept
StatsFrame ==
    /\ DOMAIN provider_stats' = DOMAIN provider_stats
    /\ \A n \in DOMAIN provider_stats :
         /\ provider_stats'[n].total_requests = provider_stats[n].total_requests
         /\ provider_stats'[n].successful_requests =
              provider_stats[n].successful_requests
         /\ provider_stats'[n].failed_requests =
              provider_stats[n].failed_requests
         /\ provider_stats'[n].avg_response_time =
              provider_stats[n].avg_response_time
         /\ provider_stats'[n].last_used = provider_stats[n].last_used

\* C25: the steps of health_check_all leave total_requests,
\* successful_requests, failed_requests, avg_response_time and last_used of
\* every adapter, the enabled list, the strategy and the round-robin cursor
\* as they were.
C25_SweepFrame ==
    [][hc' # hc
       => /\ StatsFrame
          /\ enabled_providers' = enabled_providers
          /\ load_balance_strategy' = load_balance_strategy
          /\ current_provider_index' = current_provider_index]_vars

\* the sweep is over and has overwritten the status that an earlier
\* successful round_robin attempt left
C25_Witness ==
    /\ hc.pc = "done"
    /\ current_provider_index = 1
    /\ \E n \in DOMAIN provider_stats :
         /\ provider_stats[n].successful_requests = 1
         /\ provider_stats[n].total_requests = 1
         /\ provider_stats[n].last_used = "end_time"
         /\ provider_stats[n].health_status = "unhealthy"

\* what is left of the message for the count stage once the stages before
\* it (provider tag, size, style) have stripped their matches
RemainderBeforeCount(message) ==
    With(sub(at_pattern, FALSE, <<>>, message),
         LAMBDA untagged :
           With(SubAll([i \in 1..Len(size_patterns) |->
                          size_patterns[i].pattern], 1, untagged),
                LAMBDA unsized :
                  ReplaceAll([i \in 1..Len(style_keywords) |->
                                style_keywords[i][1]], 1, unsized)))

\* C26: the count stage reads the text that remains after the earlier
\* stages have stripped their matches, so the digits of an explicit WxH
\* size are never taken for the image count.
C26_CountFromRemainder ==
    (/\ pure.fn = "parse_message"
     /\ pure.returned
     /\ SyncRaises(pure.input.negative_keywords) = <<>>)
    => pure.output.count =
         _extract_count(RemainderBeforeCount(pure.input.message))

\* the span after the first keyword, in list order, that occurs in the
\* text: <<>> when no keyword occurs
FirstNegativeSpan(text, negative_keywords) ==
    LET found == {k \in DOMAIN negative_keywords :
                    search(negative_pattern(negative_keywords[k]), TRUE,
                           text).ok}
    IN  IF found = {} THEN <<>>
        ELSE With(search(negative_pattern(negative_keywords[SetMin(found)]),
                         TRUE, text),
                  LAMBDA m : strip(group(m, text, 3)))

\* C27: at most one negative span is extracted: the negative prompt is the
\* text captured after the first keyword, in list order, found in what the
\* earlier stages left of the message.
C27_OneNegativeSpan ==
    (/\ pure.fn = "parse_message"
     /\ pure.returned
     /\ SyncRaises(pure.input.negative_keywords) = <<>>)
    => pure.output.negative_prompt =
         With(cleaned_message(pure.input.message),
              LAMBDA text :
                FirstNegativeSpan(text, pure.input.negative_keywords))

\* C28: generate_image leaves the caller's request as it was: what an
\* adapter of the fallback chain is handed is the original request put
\* through that adapter's own preprocess_params, whatever was filled in or
\* clamped for the adapters that failed before it.
C28_HandedFromOriginal ==
    \A r \in Reqs :
       pc[r] = "adapter"
       => rq[r].params =
            preprocess_params(rq[r].original, capabilities[rq[r].provider])

\* C29: when a call with fallback returns "all providers failed", every
\* adapter that is enabled at that moment was attempted during the call,
\* also when enable_provider and disable_provider ran while the call was
\* awaiting its adapters.
C29_AllEnabledAttempted ==
    \A r \in Reqs :
       (pc[r] = "done" /\ result[r].kind = "all_failed")
       => Range(enabled_providers) \subseteq Range(attempted[r])

\* C30: the sweep does not raise, and the status it returns for an adapter
\* is the result of the probe that was started for that adapter, also when
\* adapters are registered or unregistered while the probes are in flight.
C30_OwnProbeRecorded ==
    /\ hc.pc # "raised"
    /\ hc.pc = "done"
       => \A m \in DOMAIN hc.results :
            \E i \in 1..Len(hc.names) :
               /\ hc.names[i] = m
               /\ hc.results[m] = ProbeEntry(hc.probes[i])

====
